---- MODULE Spec2Model ----
(***************************************************************************)
(* Earnings-call analysis tool: the document store of app.py, the chunker  *)
(* of utils/text_processor.py, the result merger of                        *)
(* utils/gemini_analyzer.py, the sanitizer and validator of                *)
(* utils/validator.py, and the period extraction and derived metrics of    *)
(* utils/finance_extractor.py with the line items of /financial-extract.   *)
(*                                                                         *)
(* A Python str is a sequence of one-character strings, so that slicing,   *)
(* splitting, stripping and joining are computed as the code computes them.*)
(***************************************************************************)

EXTENDS Integers, Sequences, FiniteSets, TLC

VARIABLES
    text, max_tokens, overlap_tokens, chunks, cpc,   \* chunk_text: arguments, result, position
    chunk_results, merged, mpc,                      \* merge_results: argument, result, position
    raw, sanitized, spc,                             \* sanitize_output: argument, result, position
    resanitized, validated, validation,              \* the result sanitized again; the argument of
                                                     \* validate_analysis_output after the call, its verdict
    fin_periods, fin_extraction,                     \* financial_extract: periods of the text, the
    fin_line_items, fin_calculated, fin_rendered,    \* LLM's line_items list, line_items at line 254,
    fpc,                                             \* calculated_items, line_items at line 266, position
    period_text, period_list, ppc,                   \* extract_periods_from_text: argument, result, position
    documents, next_id, response, successes,         \* app.py: the store, the next fresh id,
                                                     \* the last response, successful results per id,
    llm_calls,                                       \* LLM calls made while handling the last request
    num_chunks, loop_i, calls, answers,              \* analyze_document: len(chunks), the loop index, the
    loop_results, merge_args, merge_invoked,         \* chunks analyze_chunk was called on, the LLM's answers,
    returned, apc,                                   \* results, merge_results' argument, the outcome, position
    thr_pc, thr_endpoint, thr_doc, thr_response      \* per server thread: position in the handler, the
                                                     \* endpoint it serves, its local doc, its response

chunkVars == <<text, max_tokens, overlap_tokens, chunks, cpc>>

mergeVars == <<chunk_results, merged, mpc>>

sanitizeVars == <<raw, sanitized, spc, resanitized, validated, validation>>

financeVars ==
    <<fin_periods, fin_extraction, fin_line_items, fin_calculated, fin_rendered, fpc>>

periodVars == <<period_text, period_list, ppc>>

storeVars == <<documents, next_id, response, successes, llm_calls>>

analyzeVars ==
    <<num_chunks, loop_i, calls, answers, loop_results, merge_args, merge_invoked, returned, apc>>

threadVars == <<thr_pc, thr_endpoint, thr_doc, thr_response>>

vars ==
    <<chunkVars, mergeVars, sanitizeVars, financeVars, periodVars, storeVars, analyzeVars, threadVars>>

----------------------------------------------------------------------------
(* Bounds of the chunker's inputs.                                         *)

MaxTextLen == 7

MaxTokens == 2

MaxOverlap == 1

\* the largest number of chunk results handed to merge_results
MaxChunks == 3

\* the number of documents uploaded in one run of the server
MaxDocs == 2

\* server threads handling requests at the same time
MaxThreads == 2

\* fragments of a text given to extract_periods_from_text
MaxFragments == 4

Alphabet == {"a", ".", " "}

----------------------------------------------------------------------------
(* Python string primitives.                                               *)

Min(a, b) == IF a < b THEN a ELSE b

\* s[i:] with 1-based i (the characters from position i on)
From(s, i) == SubSeq(s, i, Len(s))

\* s[-n:] : the last n characters; Python's s[-0:] is s[0:], the whole string
PySuffix(s, n) ==
    IF n = 0 \/ n >= Len(s) THEN s ELSE SubSeq(s, Len(s) - n + 1, Len(s))

IsSpace(c) == c \in {" ", "\n", "\t"}

RECURSIVE LStrip(_)
LStrip(s) ==
    IF s # <<>> /\ IsSpace(Head(s)) THEN LStrip(Tail(s)) ELSE s

RECURSIVE RStrip(_)
RStrip(s) ==
    IF s # <<>> /\ IsSpace(s[Len(s)]) THEN RStrip(SubSeq(s, 1, Len(s) - 1)) ELSE s

\* str.strip()
Strip(s) == LStrip(RStrip(s))

\* position of the first occurrence of sep in s at or after i, 0 when none
RECURSIVE Find(_, _, _)
Find(s, sep, i) ==
    IF i + Len(sep) - 1 > Len(s) THEN 0
    ELSE IF SubSeq(s, i, i + Len(sep) - 1) = sep THEN i
    ELSE Find(s, sep, i + 1)

\* str.split(sep): non-overlapping occurrences, left to right
RECURSIVE Split(_, _)
Split(s, sep) ==
    LET p == Find(s, sep, 1) IN
    IF p = 0 THEN <<s>>
    ELSE <<SubSeq(s, 1, p - 1)>> \o Split(From(s, p + Len(sep)), sep)

PeriodSpace == <<".", " ">>

----------------------------------------------------------------------------
(* utils/text_processor.py                                                 *)

estimate_tokens(t) == Len(t) \div 4

needs_chunking(t, maxTok) == estimate_tokens(t) > maxTok

\* the for loop of chunk_text over sentences[i..], with the running buffer
\* current_chunk and the chunks closed so far
RECURSIVE ChunkLoop(_, _, _, _, _, _)
ChunkLoop(sentences, i, current_chunk, acc, max_chars, overlap_chars) ==
    IF i > Len(sentences)
    THEN IF Strip(current_chunk) # <<>>
         THEN Append(acc, Strip(current_chunk))
         ELSE acc
    ELSE LET sentence == Strip(sentences[i]) \o PeriodSpace IN
         IF Len(current_chunk) + Len(sentence) > max_chars /\ current_chunk # <<>>
         THEN LET overlap_text ==
                      IF Len(current_chunk) > overlap_chars
                      THEN PySuffix(current_chunk, overlap_chars)
                      ELSE current_chunk
              IN ChunkLoop(sentences, i + 1, overlap_text \o sentence,
                           Append(acc, Strip(current_chunk)),
                           max_chars, overlap_chars)
         ELSE ChunkLoop(sentences, i + 1, current_chunk \o sentence, acc,
                        max_chars, overlap_chars)

\* chunk_text with the single-chunk test made strict (<), a plausible slip
chunk_text_strict(t, maxTok, overlapTok) ==
    LET max_chars == maxTok * 4
        overlap_chars == overlapTok * 4
    IN IF Len(t) < max_chars
       THEN <<t>>
       ELSE ChunkLoop(Split(t, PeriodSpace), 1, <<>>, <<>>, max_chars, overlap_chars)

\* chunk_text without lines 61-63: what is left in current_chunk after the
\* loop is dropped
chunk_text_no_remainder(t, maxTok, overlapTok) ==
    LET max_chars == maxTok * 4
        overlap_chars == overlapTok * 4
        closed == ChunkLoop(Split(t, PeriodSpace), 1, <<>>, <<>>, max_chars, overlap_chars)
    IN IF Len(t) <= max_chars
       THEN <<t>>
       ELSE SubSeq(closed, 1, Len(closed) - 1)

chunk_text(t, maxTok, overlapTok) ==
    LET max_chars == maxTok * 4
        overlap_chars == overlapTok * 4
    IN IF Len(t) <= max_chars
       THEN <<t>>
       ELSE ChunkLoop(Split(t, PeriodSpace), 1, <<>>, <<>>, max_chars, overlap_chars)

----------------------------------------------------------------------------
(* JSON values as the LLM returns them.  Every value is a record           *)
(*   t : "str" | "num" | "null" | "list" | "dict" | "absent"               *)
(*   s : the characters of a str (the digits of a num)                     *)
(*   l : the items of a list, each a scalar [t, s]                         *)
(*   d : the keys of a forward_guidance mapping, each a scalar [t, s],     *)
(*       "other" standing for a key besides revenue/margin/capex           *)
(* "absent" marks a key that the enclosing dict does not have, so that two  *)
(* values are equal exactly when the Python values are.                    *)

STR_NotMentioned == <<"N", "o", "t", " ", "m", "e", "n", "t", "i", "o", "n", "e", "d">>

STR_not_mentioned == <<"n", "o", "t", " ", "m", "e", "n", "t", "i", "o", "n", "e", "d">>

STR_empty == <<>>

STR_neutral == <<"n", "e", "u", "t", "r", "a", "l">>

STR_medium == <<"m", "e", "d", "i", "u", "m">>

STR_optimistic == <<"o", "p", "t", "i", "m", "i", "s", "t", "i", "c">>

STR_cautious == <<"c", "a", "u", "t", "i", "o", "u", "s">>

STR_pessimistic == <<"p", "e", "s", "s", "i", "m", "i", "s", "t", "i", "c">>

STR_high == <<"h", "i", "g", "h">>

STR_low == <<"l", "o", "w">>

STR_bullish == <<"b", "u", "l", "l", "i", "s", "h">>

STR_Optimistic == <<"O", "p", "t", "i", "m", "i", "s", "t", "i", "c">>

STR_Sep == <<" ", "|", " ">>

Uppers == <<"A", "B", "C", "D", "E", "F", "G", "H", "I", "J", "K", "L", "M",
            "N", "O", "P", "Q", "R", "S", "T", "U", "V", "W", "X", "Y", "Z">>

Lowers == <<"a", "b", "c", "d", "e", "f", "g", "h", "i", "j", "k", "l", "m",
            "n", "o", "p", "q", "r", "s", "t", "u", "v", "w", "x", "y", "z">>

LowerChar(c) ==
    IF \E i \in DOMAIN Uppers : Uppers[i] = c
    THEN Lowers[CHOOSE i \in DOMAIN Uppers : Uppers[i] = c]
    ELSE c

\* str.lower()
Lower(s) == [i \in 1..Len(s) |-> LowerChar(s[i])]

Sc(t, s) == [t |-> t, s |-> s]

ScAbsent == Sc("absent", <<>>)

ScStr(s) == Sc("str", s)

ScNum(s) == Sc("num", s)

ScNull == Sc("null", <<>>)

\* the empty mapping {} as a forward_guidance
NoKeys == [revenue |-> ScAbsent, margin |-> ScAbsent, capex |-> ScAbsent, other |-> ScAbsent]

Val(t, s, l, d) == [t |-> t, s |-> s, l |-> l, d |-> d]

Absent == Val("absent", <<>>, <<>>, NoKeys)

Str(s) == Val("str", s, <<>>, NoKeys)

Num(s) == Val("num", s, <<>>, NoKeys)

Null == Val("null", <<>>, <<>>, NoKeys)

List(l) == Val("list", <<>>, l, NoKeys)

Dict(d) == Val("dict", <<>>, <<>>, d)

\* a scalar value as a list item, and back
AsItem(v) == Sc(v.t, v.s)

ListFields == <<"key_positives", "key_concerns", "growth_initiatives">>

GuidanceKeys == <<"revenue", "margin", "capex">>

required_fields ==
    <<"management_tone", "confidence_level", "key_positives", "key_concerns",
      "forward_guidance", "capacity_utilization_trends", "growth_initiatives">>

\* the dict {} : no key present
EmptyResult == [f \in {required_fields[i] : i \in DOMAIN required_fields} |-> Absent]

\* Python truthiness of a scalar: '' , 0 and None are falsy
Truthy(x) ==
    CASE x.t = "str" -> x.s # <<>>
      [] x.t = "num" -> x.s # <<"0">>
      [] OTHER -> FALSE

----------------------------------------------------------------------------
(* utils/validator.py                                                      *)

valid_tones == {STR_optimistic, STR_cautious, STR_neutral, STR_pessimistic}

valid_levels == {STR_high, STR_medium, STR_low}

DefaultGuidance ==
    [revenue |-> ScStr(STR_NotMentioned), margin |-> ScStr(STR_NotMentioned),
     capex |-> ScStr(STR_NotMentioned), other |-> ScAbsent]

\* the loop over the three list fields (lines 127-135) for one field
sanitize_list(v) ==
    CASE v.t = "absent" -> v
      [] v.t = "str" -> IF Lower(v.s) = STR_not_mentioned
                        THEN List(<<>>)
                        ELSE List(<<AsItem(v)>>)
      [] v.t = "list" -> v
      [] OTHER -> List(<<>>)

\* lines 138-157 for a field that must be of type ty, with its default
sanitize_typed_keep(v, ty, default) == v

sanitize_typed(v, ty, default) ==
    IF v.t = "absent" \/ v.t = ty THEN v ELSE default

\* line 124: sanitized = result.copy(); every assignment of lines 127-157 goes
\* to the copy, so the caller's dict holds after the call what it held before
result_after_sanitize_alias(result) ==
    [management_tone |-> sanitize_typed(result.management_tone, "str", Str(STR_neutral)),
     confidence_level |-> sanitize_typed(result.confidence_level, "str", Str(STR_medium)),
     key_positives |-> sanitize_list(result.key_positives),
     key_concerns |-> sanitize_list(result.key_concerns),
     forward_guidance |-> sanitize_typed(result.forward_guidance, "dict", Dict(DefaultGuidance)),
     capacity_utilization_trends |->
         sanitize_typed(result.capacity_utilization_trends, "str", Str(STR_NotMentioned)),
     growth_initiatives |-> sanitize_list(result.growth_initiatives)]

result_after_sanitize(result) == result

sanitize_output(result) ==
    [management_tone |-> sanitize_typed(result.management_tone, "str", Str(STR_neutral)),
     confidence_level |-> sanitize_typed(result.confidence_level, "str", Str(STR_medium)),
     key_positives |-> sanitize_list(result.key_positives),
     key_concerns |-> sanitize_list(result.key_concerns),
     forward_guidance |-> sanitize_typed(result.forward_guidance, "dict", Dict(DefaultGuidance)),
     capacity_utilization_trends |->
         sanitize_typed(result.capacity_utilization_trends, "str", Str(STR_NotMentioned)),
     growth_initiatives |-> sanitize_list(result.growth_initiatives)]

\* tone.lower() raises AttributeError unless tone is a str
Raises_lower(v) == v.t # "str"

validate_tone(tone) == Lower(tone.s) \in valid_tones

validate_confidence(confidence) == Lower(confidence.s) \in valid_levels

MinItems == 0

MaxItems == 10

validate_list_field(items) ==
    IF items.t # "list" THEN FALSE
    ELSE IF Len(items.l) = 0 THEN TRUE
    ELSE IF Len(items.l) = 1 /\ items.l[1] = ScStr(STR_NotMentioned) THEN TRUE
    ELSE IF ~(MinItems <= Len(items.l) /\ Len(items.l) <= MaxItems) THEN FALSE
    ELSE \A i \in DOMAIN items.l : items.l[i].t = "str"

validate_forward_guidance_dict_only(guidance) == guidance.t = "dict"

validate_forward_guidance(guidance) ==
    IF guidance.t # "dict" THEN FALSE
    ELSE IF ~(\A i \in DOMAIN GuidanceKeys : guidance.d[GuidanceKeys[i]].t # "absent") THEN FALSE
    ELSE \A i \in DOMAIN GuidanceKeys : guidance.d[GuidanceKeys[i]].t = "str"

Verdict(raised, ok, reason, field) ==
    [raised |-> raised, ok |-> ok, reason |-> reason, field |-> field]

NoVerdict == Verdict(FALSE, FALSE, "", "")

\* lines 76-106 read result and assign to none of its items
result_after_validate(result) == result

\* (is_valid, error_message); raised when the call ends in an exception instead
validate_analysis_output(result) ==
    IF \E i \in DOMAIN required_fields : result[required_fields[i]].t = "absent"
    THEN Verdict(FALSE, FALSE, "Missing required field",
                 required_fields[CHOOSE i \in DOMAIN required_fields :
                     /\ result[required_fields[i]].t = "absent"
                     /\ \A j \in 1..(i - 1) : result[required_fields[j]].t # "absent"])
    ELSE IF Raises_lower(result.management_tone)
    THEN Verdict(TRUE, FALSE, "AttributeError", "management_tone")
    ELSE IF ~validate_tone(result.management_tone)
    THEN Verdict(FALSE, FALSE, "Invalid", "management_tone")
    ELSE IF Raises_lower(result.confidence_level)
    THEN Verdict(TRUE, FALSE, "AttributeError", "confidence_level")
    ELSE IF ~validate_confidence(result.confidence_level)
    THEN Verdict(FALSE, FALSE, "Invalid", "confidence_level")
    ELSE IF ~validate_list_field(result.key_positives)
    THEN Verdict(FALSE, FALSE, "Invalid format", "key_positives")
    ELSE IF ~validate_list_field(result.key_concerns)
    THEN Verdict(FALSE, FALSE, "Invalid format", "key_concerns")
    ELSE IF ~validate_list_field(result.growth_initiatives)
    THEN Verdict(FALSE, FALSE, "Invalid format", "growth_initiatives")
    ELSE IF ~validate_forward_guidance(result.forward_guidance)
    THEN Verdict(FALSE, FALSE, "Invalid structure", "forward_guidance")
    ELSE IF result.capacity_utilization_trends.t # "str"
    THEN Verdict(FALSE, FALSE, "must be a string", "capacity_utilization_trends")
    ELSE Verdict(FALSE, TRUE, "Valid", "")

----------------------------------------------------------------------------
(* utils/gemini_analyzer.py : merge_results                                *)

Range(f) == {f[i] : i \in DOMAIN f}

Take(s, n) == SubSeq(s, 1, Min(n, Len(s)))

Count(votes, v) == Cardinality({i \in DOMAIN votes : votes[i] = v})

\* [r.get(key, "") for r in chunk_results if r.get(key) != "Not mentioned"]:
\* a chunk without the key passes the filter (None != "Not mentioned") and
\* contributes the default ""
RECURSIVE Votes(_, _, _)
Votes(results, key, i) ==
    IF i > Len(results) THEN <<>>
    ELSE LET v == results[i][key] IN
         (IF v = Str(STR_NotMentioned) THEN <<>>
          ELSE IF v.t = "absent" THEN <<Str(STR_empty)>>
          ELSE <<v>>) \o Votes(results, key, i + 1)

\* max(set(votes), key=votes.count): max returns the first element of highest
\* count in the iteration order of the set, and the iteration order of a set
\* of str depends on the per-process hash seed, so any value of highest count
\* can be the result
majority_vote(votes, default) ==
    IF votes = <<>> THEN {default}
    ELSE {v \in Range(votes) : \A w \in Range(votes) : Count(votes, v) >= Count(votes, w)}

merged_items_limit == 5

\* for item in chunk_items: if item and item != "Not mentioned" and item not in items
RECURSIVE AddItems(_, _, _)
AddItems(items, chunk_items, j) ==
    IF j > Len(chunk_items) THEN items
    ELSE LET item == chunk_items[j] IN
         IF Truthy(item) /\ item # ScStr(STR_NotMentioned) /\ item \notin Range(items)
         THEN AddItems(Append(items, item), chunk_items, j + 1)
         ELSE AddItems(items, chunk_items, j + 1)

RECURSIVE CollectItems(_, _, _, _)
CollectItems(results, key, i, items) ==
    IF i > Len(results) THEN items
    ELSE LET v == results[i][key] IN
         IF v.t = "list"
         THEN CollectItems(results, key, i + 1, AddItems(items, v.l, 1))
         ELSE CollectItems(results, key, i + 1, items)

\* the variant without the "item not in items" test
RECURSIVE AddItemsNoDedup(_, _, _)
AddItemsNoDedup(items, chunk_items, j) ==
    IF j > Len(chunk_items) THEN items
    ELSE LET item == chunk_items[j] IN
         IF Truthy(item) /\ item # ScStr(STR_NotMentioned)
         THEN AddItemsNoDedup(Append(items, item), chunk_items, j + 1)
         ELSE AddItemsNoDedup(items, chunk_items, j + 1)

RECURSIVE CollectItemsNoDedup(_, _, _, _)
CollectItemsNoDedup(results, key, i, items) ==
    IF i > Len(results) THEN items
    ELSE LET v == results[i][key] IN
         IF v.t = "list"
         THEN CollectItemsNoDedup(results, key, i + 1, AddItemsNoDedup(items, v.l, 1))
         ELSE CollectItemsNoDedup(results, key, i + 1, items)

merge_list_nodedup(results, key) ==
    List(Take(CollectItemsNoDedup(results, key, 1, <<>>), merged_items_limit))

\* merged[key] = items[:5]
merge_list(results, key) ==
    List(Take(CollectItems(results, key, 1, <<>>), merged_items_limit))

\* result.get("forward_guidance", {}).get(guidance_key, "Not mentioned"),
\* kept when truthy and not the sentinel
RECURSIVE GuidanceValues(_, _, _)
GuidanceValues(results, guidance_key, i) ==
    IF i > Len(results) THEN <<>>
    ELSE LET fg == results[i].forward_guidance
             val == IF fg.t = "absent" \/ fg.d[guidance_key].t = "absent"
                    THEN ScStr(STR_NotMentioned)
                    ELSE fg.d[guidance_key]
         IN (IF Truthy(val) /\ val # ScStr(STR_NotMentioned) THEN <<val>> ELSE <<>>)
            \o GuidanceValues(results, guidance_key, i + 1)

\* sep.join(strings)
RECURSIVE Join(_, _)
Join(strings, sep) ==
    IF strings = <<>> THEN <<>>
    ELSE IF Len(strings) = 1 THEN strings[1].s
    ELSE strings[1].s \o sep \o Join(Tail(strings), sep)

\* the orders in which list(set(values)) can enumerate the distinct values
Orders(S) ==
    {f \in [1..Cardinality(S) -> S] : \A i, j \in 1..Cardinality(S) : f[i] = f[j] => i = j}

\* lines 215-222: the possible merged values of one guidance key
merge_guidance(results, guidance_key) ==
    LET values == GuidanceValues(results, guidance_key, 1) IN
    IF values = <<>> THEN {ScStr(STR_NotMentioned)}
    ELSE IF Cardinality(Range(values)) = 1 THEN {values[1]}
    ELSE {ScStr(Join(unique_values, STR_Sep)) : unique_values \in Orders(Range(values))}

\* lines 225-229: distinct truthy non-sentinel trends in chunk order
RECURSIVE Trends(_, _, _)
Trends(results, i, trends) ==
    IF i > Len(results) THEN trends
    ELSE LET v == results[i].capacity_utilization_trends
             trend == IF v.t = "absent" THEN ScStr(STR_NotMentioned) ELSE AsItem(v)
         IN IF Truthy(trend) /\ trend # ScStr(STR_NotMentioned) /\ trend \notin Range(trends)
            THEN Trends(results, i + 1, Append(trends, trend))
            ELSE Trends(results, i + 1, trends)

\* the trends merged without the default of line 171
merge_trends_no_default(results) ==
    LET trends == Trends(results, 1, <<>>) IN
    IF trends # <<>> THEN Str(Join(trends, STR_Sep)) ELSE Absent

merge_trends(results) ==
    LET trends == Trends(results, 1, <<>>) IN
    IF trends # <<>> THEN Str(Join(trends, STR_Sep)) ELSE Str(STR_NotMentioned)

\* chunk_results after the call: lines 154-234 only read the list and the
\* dictionaries in it
results_after_merge(results) == results

\* the results merge_results can return for chunk_results = results
merge_results(results) ==
    IF Len(results) = 1 THEN {results[1]}
    ELSE {[management_tone |-> tone,
           confidence_level |-> confidence,
           key_positives |-> merge_list(results, "key_positives"),
           key_concerns |-> merge_list(results, "key_concerns"),
           forward_guidance |->
               Dict([revenue |-> revenue, margin |-> margin, capex |-> capex, other |-> ScAbsent]),
           capacity_utilization_trends |-> merge_trends(results),
           growth_initiatives |-> merge_list(results, "growth_initiatives")] :
          tone \in majority_vote(Votes(results, "management_tone", 1), Str(STR_neutral)),
          confidence \in majority_vote(Votes(results, "confidence_level", 1), Str(STR_medium)),
          revenue \in merge_guidance(results, "revenue"),
          margin \in merge_guidance(results, "margin"),
          capex \in merge_guidance(results, "capex")}

----------------------------------------------------------------------------
(* utils/finance_extractor.py : extract_periods_from_text                  *)

IsDigit(c) == c \in {"0", "1", "2", "3", "4", "5", "6", "7", "8", "9"}

\* the literal lit (lower case) at position i, ignoring case
LitAt(t, i, lit) ==
    /\ i + Len(lit) - 1 <= Len(t)
    /\ Lower(SubSeq(t, i, i + Len(lit) - 1)) = lit

\* the first position at or after i that holds no whitespace (\s* from i)
RECURSIVE SkipSpace(_, _)
SkipSpace(t, i) ==
    IF i <= Len(t) /\ IsSpace(t[i]) THEN SkipSpace(t, i + 1) ELSE i

\* n digits at position i (\d{n})
DigitsAt(t, i, n) ==
    /\ i + n - 1 <= Len(t)
    /\ \A j \in i..(i + n - 1) : IsDigit(t[j])

\* .*?(\d{4}) from i: the first position of four digits reached without
\* crossing a newline, 0 when there is none
RECURSIVE LazyDigits(_, _)
LazyDigits(t, i) ==
    IF i > Len(t) THEN 0
    ELSE IF DigitsAt(t, i, 4) THEN i
    ELSE IF t[i] = "\n" THEN 0
    ELSE LazyDigits(t, i + 1)

NoMatch == [end |-> 0, year |-> <<>>]

\* a match of fy_patterns[p] starting at position i: the position after the
\* match and group 1, or NoMatch
MatchAt(p, t, i) ==
    CASE p = 1 ->
           LET j == SkipSpace(t, i + 2) IN
           IF LitAt(t, i, <<"f", "y">>) /\ DigitsAt(t, j, 2)
           THEN [end |-> j + 2, year |-> SubSeq(t, j, j + 1)] ELSE NoMatch
      [] p = 2 ->
           LET j == SkipSpace(t, i + 2) IN
           IF LitAt(t, i, <<"f", "y">>) /\ DigitsAt(t, j, 4)
           THEN [end |-> j + 4, year |-> SubSeq(t, j, j + 3)] ELSE NoMatch
      [] p = 3 ->
           LET j == SkipSpace(t, i + 6)
               k == SkipSpace(t, j + 4)
           IN IF /\ LitAt(t, i, <<"f", "i", "s", "c", "a", "l">>) /\ j > i + 6
                 /\ LitAt(t, j, <<"y", "e", "a", "r">>) /\ k > j + 4
                 /\ DigitsAt(t, k, 4)
              THEN [end |-> k + 4, year |-> SubSeq(t, k, k + 3)] ELSE NoMatch
      [] OTHER ->
           LET j == SkipSpace(t, i + 4)
               k == SkipSpace(t, j + 5)
               m == LazyDigits(t, k)
           IN IF /\ LitAt(t, i, <<"y", "e", "a", "r">>) /\ j > i + 4
                 /\ LitAt(t, j, <<"e", "n", "d", "e", "d">>) /\ k > j + 5
                 /\ m > 0
              THEN [end |-> m + 4, year |-> SubSeq(t, m, m + 3)] ELSE NoMatch

\* lines 26-29: FY + the year, or its last two digits
PeriodOf(year) ==
    <<"F", "Y">> \o (IF Len(year) = 2 THEN year ELSE SubSeq(year, Len(year) - 1, Len(year)))

\* re.finditer(pattern, text) from position i, appending new periods
RECURSIVE FindIter(_, _, _, _)
FindIter(p, t, i, found) ==
    IF i > Len(t) THEN found
    ELSE LET m == MatchAt(p, t, i) IN
         IF m.end = 0 THEN FindIter(p, t, i + 1, found)
         ELSE LET fy == PeriodOf(m.year) IN
              FindIter(p, t, m.end,
                       IF fy \in Range(found) THEN found ELSE Append(found, fy))

\* the matches re.finditer(pattern, text) yields from position i: the start
\* and group 1 of each
RECURSIVE Matches(_, _, _)
Matches(p, t, i) ==
    IF i > Len(t) THEN <<>>
    ELSE LET m == MatchAt(p, t, i) IN
         IF m.end = 0 THEN Matches(p, t, i + 1)
         ELSE <<[start |-> i, year |-> m.year]>> \o Matches(p, t, m.end)

RECURSIVE AllPatterns(_, _, _)
AllPatterns(p, t, found) ==
    IF p > 4 THEN found ELSE AllPatterns(p + 1, t, FindIter(p, t, 1, found))

DigitValue(c) ==
    CASE c = "0" -> 0 [] c = "1" -> 1 [] c = "2" -> 2 [] c = "3" -> 3 [] c = "4" -> 4
      [] c = "5" -> 5 [] c = "6" -> 6 [] c = "7" -> 7 [] c = "8" -> 8 [] OTHER -> 9

\* the order of str on period tokens 'FYdd'
PeriodKey(fy) == 10 * DigitValue(fy[3]) + DigitValue(fy[4])

\* sorted(set(periods), reverse=True)
RECURSIVE SortedDescending(_)
SortedDescending(S) ==
    IF S = {} THEN <<>>
    ELSE LET top == CHOOSE x \in S : \A y \in S : PeriodKey(x) >= PeriodKey(y)
         IN <<top>> \o SortedDescending(S \ {top})

extract_periods_from_text(t) == SortedDescending(Range(AllPatterns(1, t, <<>>)))

----------------------------------------------------------------------------
(* utils/finance_extractor.py : calculate_derived_metrics.  A values dict   *)
(* maps every period token to a value [k, n, d]: k = "absent" for a key the *)
(* dict does not have, "null" for JSON null (None), "num" for the number    *)
(* n / d.  A status dict maps a period to "" when it lacks the key.  A dict *)
(* of line items maps every item name to an item, present = FALSE for a     *)
(* name the dict does not have.                                            *)

FY25 == PeriodOf(<<"2", "5">>)

FY24 == PeriodOf(<<"2", "0", "2", "4">>)

PeriodNames == {FY25, FY24}

NoValue == [k |-> "absent", n |-> 0, d |-> 1]

NullValue == [k |-> "null", n |-> 0, d |-> 1]

Amount(n) == [k |-> "num", n |-> n, d |-> 1]

\* the float n / d
Ratio(n, d) == [k |-> "num", n |-> n, d |-> d]

NoValues == [p \in PeriodNames |-> NoValue]

NoStatus == [p \in PeriodNames |-> ""]

Item(name, values, status) ==
    [present |-> TRUE, name |-> name, values |-> values, status |-> status]

NoItem == [present |-> FALSE, name |-> "", values |-> NoValues, status |-> NoStatus]

ExtractedNames ==
    {"Revenue from operations", "Other income", "Cost of materials consumed",
     "Employee benefits expense", "Other expenses"}

CalculatedNames == {"Gross Profit", "Gross Margin", "EBITDA"}

ItemNames == ExtractedNames \cup {"Total Revenue"} \cup CalculatedNames

NoLineItems == [name \in ItemNames |-> NoItem]

NoCalculated == [name \in CalculatedNames |-> NoItem]

\* values.get(period): None for a missing key
DictGet(values, period) ==
    IF values[period].k = "absent" THEN NullValue ELSE values[period]

IsNone(v) == v.k = "null"

\* line_items.get(name, {}).get("values", {})
ValuesOf(line_items, name) ==
    IF line_items[name].present THEN line_items[name].values ELSE NoValues

\* a dict is true when it has a key
NonEmpty(values) == \E p \in PeriodNames : values[p].k # "absent"

\* lines 117-119
all_periods(line_items) ==
    {p \in PeriodNames : \E name \in ItemNames :
        line_items[name].present /\ line_items[name].values[p].k # "absent"}

\* the item built by a loop that sets values[p] and status[p] for the
\* periods of computed
Computed(name, computed) ==
    Item(name,
         [p \in PeriodNames |-> IF p \in DOMAIN computed THEN computed[p] ELSE NoValue],
         [p \in PeriodNames |-> IF p \in DOMAIN computed THEN "calculated" ELSE ""])

\* gross profit computed wherever revenue is known, cost counting as 0
gross_profit_revenue_only(line_items) ==
    LET revenue(p) == DictGet(ValuesOf(line_items, "Total Revenue"), p)
        cogs(p) == DictGet(ValuesOf(line_items, "Cost of materials consumed"), p)
        qualifies(p) == p \in all_periods(line_items) /\ ~IsNone(revenue(p))
        value(p) == Amount(revenue(p).n - cogs(p).n)
    IN Computed("Gross Profit", [p \in {q \in PeriodNames : qualifies(q)} |-> value(p)])

\* lines 123-132
gross_profit(line_items) ==
    LET revenue(p) == DictGet(ValuesOf(line_items, "Total Revenue"), p)
        cogs(p) == DictGet(ValuesOf(line_items, "Cost of materials consumed"), p)
        qualifies(p) ==
            p \in all_periods(line_items) /\ ~IsNone(revenue(p)) /\ ~IsNone(cogs(p))
        value(p) == Amount(revenue(p).n - cogs(p).n)
    IN Computed("Gross Profit", [p \in {q \in PeriodNames : qualifies(q)} |-> value(p)])

\* gross margin without the test revenue != 0
gross_margin_unguarded(line_items, calculated) ==
    LET gp(p) == DictGet(calculated["Gross Profit"].values, p)
        revenue(p) == DictGet(line_items["Total Revenue"].values, p)
        qualifies(p) ==
            p \in all_periods(line_items) /\ ~IsNone(gp(p)) /\ ~IsNone(revenue(p))
        value(p) == Ratio(gp(p).n, revenue(p).n)
    IN Computed("Gross Margin", [p \in {q \in PeriodNames : qualifies(q)} |-> value(p)])

\* lines 139-148
gross_margin(line_items, calculated) ==
    LET gp(p) == DictGet(calculated["Gross Profit"].values, p)
        revenue(p) == DictGet(line_items["Total Revenue"].values, p)
        qualifies(p) ==
            /\ p \in all_periods(line_items)
            /\ ~IsNone(gp(p)) /\ ~IsNone(revenue(p)) /\ revenue(p).n # 0
        value(p) == Ratio(gp(p).n, revenue(p).n)
    IN Computed("Gross Margin", [p \in {q \in PeriodNames : qualifies(q)} |-> value(p)])

\* EBITDA computed only where both expenses are known
ebitda_known_expenses(line_items, calculated) ==
    LET gp(p) == DictGet(calculated["Gross Profit"].values, p)
        emp(p) == DictGet(ValuesOf(line_items, "Employee benefits expense"), p)
        other(p) == DictGet(ValuesOf(line_items, "Other expenses"), p)
        qualifies(p) ==
            /\ p \in all_periods(line_items) /\ ~IsNone(gp(p))
            /\ ~IsNone(emp(p)) /\ ~IsNone(other(p))
        value(p) == Amount(gp(p).n - emp(p).n - other(p).n)
    IN Computed("EBITDA", [p \in {q \in PeriodNames : qualifies(q)} |-> value(p)])

\* lines 155-169
ebitda(line_items, calculated) ==
    LET gp(p) == DictGet(calculated["Gross Profit"].values, p)
        emp(p) == DictGet(ValuesOf(line_items, "Employee benefits expense"), p)
        other(p) == DictGet(ValuesOf(line_items, "Other expenses"), p)
        emp_val(p) == IF ~IsNone(emp(p)) THEN emp(p).n ELSE 0
        other_val(p) == IF ~IsNone(other(p)) THEN other(p).n ELSE 0
        qualifies(p) == p \in all_periods(line_items) /\ ~IsNone(gp(p))
        value(p) == Amount(gp(p).n - emp_val(p) - other_val(p))
    IN Computed("EBITDA", [p \in {q \in PeriodNames : qualifies(q)} |-> value(p)])

calculate_derived_metrics(line_items) ==
    LET c1 == IF /\ line_items["Total Revenue"].present
                 /\ line_items["Cost of materials consumed"].present
                 /\ NonEmpty(gross_profit(line_items).values)
              THEN [NoCalculated EXCEPT !["Gross Profit"] = gross_profit(line_items)]
              ELSE NoCalculated
        c2 == IF /\ c1["Gross Profit"].present
                 /\ line_items["Total Revenue"].present
                 /\ NonEmpty(gross_margin(line_items, c1).values)
              THEN [c1 EXCEPT !["Gross Margin"] = gross_margin(line_items, c1)]
              ELSE c1
    IN IF c2["Gross Profit"].present /\ NonEmpty(ebitda(line_items, c2).values)
       THEN [c2 EXCEPT !["EBITDA"] = ebitda(line_items, c2)]
       ELSE c2

----------------------------------------------------------------------------
(* utils/gemini_analyzer.py : analyze_chunk and analyze_document.  An LLM   *)
(* response is what the call and json.loads make of it: an exception of    *)
(* the client, text that is no JSON, JSON that is no object, or an object. *)

LLMResponse(kind, body) == [kind |-> kind, body |-> body]

Outcome(raised, value) == [raised |-> raised, value |-> value]

\* the parsed object, or the exception every other response ends in
analyze_chunk(llm) ==
    IF llm.kind = "dict" THEN Outcome(FALSE, llm.body) ELSE Outcome(TRUE, EmptyResult)

\* the LLM calls analyze_document makes for chunks (<<>> stands for None)
NumCalls(chunkList) == IF Len(chunkList) > 1 THEN Len(chunkList) ELSE 1

\* a loop that goes on to the next chunk whatever analyze_chunk did
loop_continues_always(outcome) == TRUE

\* lines 254-257: the for loop goes on to the next chunk when analyze_chunk
\* returned; an exception raised by analyze_chunk leaves the loop and
\* analyze_document, which has no try block
loop_continues(outcome) == ~outcome.raised

\* the calls analyze_document has made when it returns or raises: the for
\* loop of lines 254-257 ends at the first call that raises
CallsMade(llms) ==
    IF \E i \in DOMAIN llms : analyze_chunk(llms[i]).raised
    THEN CHOOSE i \in DOMAIN llms :
            /\ analyze_chunk(llms[i]).raised
            /\ \A j \in 1..(i - 1) : ~analyze_chunk(llms[j]).raised
    ELSE Cardinality(DOMAIN llms)

\* the outcomes of analyze_document when the i-th call is answered by llms[i]
analyze_document(chunkList, llms) ==
    IF Len(chunkList) > 1
    THEN IF \E i \in DOMAIN llms : analyze_chunk(llms[i]).raised
         THEN {Outcome(TRUE, EmptyResult)}
         ELSE {Outcome(FALSE, m) :
                  m \in merge_results([i \in DOMAIN llms |-> analyze_chunk(llms[i]).value])}
    ELSE {analyze_chunk(llms[1])}

----------------------------------------------------------------------------
(* app.py                                                                  *)

MAX_FILE_SIZE_MB == 20

MAX_TEXT_LENGTH == MAX_FILE_SIZE_MB * 1024 * 1024

AnalyzeMaxTokens == 6000

DefaultOverlapTokens == 100

STR_document_txt == <<"d", "o", "c", "u", "m", "e", "n", "t", ".", "t", "x", "t">>

STR_call_txt == <<"c", "a", "l", "l", ".", "t", "x", "t">>

Doc(t, filename) == [text |-> t, filename |-> filename]

\* documents[document_id] = {...}
Put(docs, document_id, doc) ==
    [i \in DOMAIN docs \cup {document_id} |-> IF i = document_id THEN doc ELSE docs[i]]

\* documents.pop(document_id, None)
Pop(docs, document_id) == [i \in DOMAIN docs \ {document_id} |-> docs[i]]

\* a JSON response: the endpoint and document_id of the request it answers,
\* the status code, the keys of the body, the kind of error, and the result
\* carried under 'analysis', 'raw_output' or 'raw_result'
Response(endpoint, document_id, code, keys, error, body) ==
    [endpoint |-> endpoint, document_id |-> document_id, code |-> code,
     keys |-> keys, error |-> error, body |-> body]

NoResponse == Response("", 0, 0, {}, "", EmptyResult)

\* /upload (lines 56-101); uuid4 is modelled as an id never issued before
upload_response(data) ==
    IF ~data.json \/ ~data.has_text
    THEN Response("/upload", 0, 400, {"error"}, "No text provided", EmptyResult)
    ELSE IF data.text = <<>> \/ Strip(data.text) = <<>>
    THEN Response("/upload", 0, 400, {"error"}, "Empty text received", EmptyResult)
    ELSE IF Len(data.text) > MAX_TEXT_LENGTH
    THEN Response("/upload", 0, 413, {"error"}, "Text too large", EmptyResult)
    ELSE Response("/upload", next_id, 200,
                  {"document_id", "filename", "text_length", "status", "message"},
                  "", EmptyResult)

\* lines 161-164 with the partial result under 'analysis' as well
validation_failed_response_with_analysis(document_id, result) ==
    Response("/analyze", document_id, 500, {"error", "raw_output", "analysis"},
             "Analysis output validation failed", result)

\* lines 161-164
validation_failed_response(document_id, result) ==
    Response("/analyze", document_id, 500, {"error", "raw_output"},
             "Analysis output validation failed", result)

\* lines 129-180: the response to /analyze for a stored document when
\* analyze_document ends in outcome
analyze_response(document_id, outcome) ==
    IF outcome.raised
    THEN Response("/analyze", document_id, 500, {"error", "error_type"},
                  "AI API error", EmptyResult)
    ELSE LET result == sanitize_output(outcome.value)
             verdict == validate_analysis_output(result)
         IN IF verdict.raised
            THEN Response("/analyze", document_id, 500, {"error", "error_type"},
                          "Analysis failed", EmptyResult)
            ELSE IF ~verdict.ok
            THEN validation_failed_response(document_id, result)
            ELSE Response("/analyze", document_id, 200,
                          {"document_id", "filename", "analysis", "status"}, "", result)

\* the store after a request with the pop moved before the work
store_after_always_pop(docs, document_id, resp) == Pop(docs, document_id)

\* lines 167 and 272: the document is popped on the success path only
store_after(docs, document_id, resp) ==
    IF resp.code = 200 THEN Pop(docs, document_id) ELSE docs

\* an item of the LLM's line_items list
ItemData(name, values) == [name |-> name, values |-> values]

\* the item of lines 236-240 with a status only for the non-null values
extracted_item_non_null(item_data) ==
    Item(item_data.name, item_data.values,
         [p \in PeriodNames |-> IF item_data.values[p].k = "num" THEN "extracted" ELSE ""])

\* lines 236-240
extracted_item(item_data) ==
    Item(item_data.name, item_data.values,
         [p \in PeriodNames |-> IF item_data.values[p].k # "absent" THEN "extracted" ELSE ""])

\* lines 234-240: the loop over extraction_result['line_items'] from item i
RECURSIVE ConvertLineItems(_, _, _)
ConvertLineItems(list, i, line_items) ==
    IF i > Len(list) THEN line_items
    ELSE ConvertLineItems(list, i + 1,
                          [line_items EXCEPT ![list[i].name] = extracted_item(list[i])])

\* lines 244-250
total_revenue(line_items, periods) ==
    LET ops(p) == DictGet(line_items["Revenue from operations"].values, p)
        other(p) == DictGet(line_items["Other income"].values, p)
        qualifies(p) == p \in Range(periods) /\ ~IsNone(ops(p)) /\ ~IsNone(other(p))
        value(p) == Amount(ops(p).n + other(p).n)
    IN Computed("Total Revenue", [p \in {q \in PeriodNames : qualifies(q)} |-> value(p)])

\* lines 243-251
add_total_revenue(line_items, periods) ==
    IF line_items["Revenue from operations"].present /\ line_items["Other income"].present
    THEN [line_items EXCEPT !["Total Revenue"] = total_revenue(line_items, periods)]
    ELSE line_items

\* line 255: line_items.update(calculated_items)
update(line_items, calculated_items) ==
    [name \in ItemNames |->
        IF name \in CalculatedNames /\ calculated_items[name].present
        THEN calculated_items[name]
        ELSE line_items[name]]

\* lines 131 and 210, documents[document_id], when the key is gone: the
\* KeyError is caught at line 176 or 282
key_error_response(endpoint, document_id) ==
    Response(endpoint, document_id, 500, {"error", "error_type"},
             IF endpoint = "/analyze" THEN "Analysis failed" ELSE "Financial extraction failed",
             EmptyResult)

\* the handler without lines 213-219: a document without periods goes on to
\* the LLM call
financial_response_unchecked(document_id, doc, llm) ==
    IF llm = "api_error"
    THEN Response("/financial-extract", document_id, 500, {"error"},
                  "LLM extraction failed", EmptyResult)
    ELSE IF llm = "malformed"
    THEN Response("/financial-extract", document_id, 500, {"error", "error_type"},
                  "Financial extraction failed", EmptyResult)
    ELSE Response("/financial-extract", document_id, 200, {"file"}, "", EmptyResult)

\* lines 209-286 for a stored document; llm tells how steps 4 to 8 end: the
\* LLM call raises, a later step raises on the LLM's answer, or the
\* spreadsheet is sent
financial_response(document_id, doc, llm) ==
    IF extract_periods_from_text(doc.text) = <<>>
    THEN Response("/financial-extract", document_id, 400, {"error"},
                  "No financial periods found", EmptyResult)
    ELSE IF llm = "api_error"
    THEN Response("/financial-extract", document_id, 500, {"error"},
                  "LLM extraction failed", EmptyResult)
    ELSE IF llm = "malformed"
    THEN Response("/financial-extract", document_id, 500, {"error", "error_type"},
                  "Financial extraction failed", EmptyResult)
    ELSE Response("/financial-extract", document_id, 200, {"file"}, "", EmptyResult)

\* calls of extract_financial_data (line 229) while lines 209-286 run: none
\* when line 215 returns
financial_llm_calls(doc) ==
    IF extract_periods_from_text(doc.text) = <<>> THEN 0 ELSE 1

----------------------------------------------------------------------------
(* The chunker applied to every bounded input.                             *)

Texts == UNION {[1..n -> Alphabet] : n \in 0..MaxTextLen}

ChunkIdle ==
    /\ text = <<>>
    /\ max_tokens = 0
    /\ overlap_tokens = 0
    /\ chunks = <<>>
    /\ cpc = "idle"

MergeIdle ==
    /\ chunk_results = <<>>
    /\ merged = EmptyResult
    /\ mpc = "idle"

SanitizeIdle ==
    /\ raw = EmptyResult
    /\ sanitized = EmptyResult
    /\ spc = "idle"
    /\ resanitized = EmptyResult
    /\ validated = EmptyResult
    /\ validation = NoVerdict

FinanceIdle ==
    /\ fin_periods = <<>>
    /\ fin_extraction = <<>>
    /\ fin_line_items = NoLineItems
    /\ fin_calculated = NoCalculated
    /\ fin_rendered = NoLineItems
    /\ fpc = "idle"

PeriodsIdle ==
    /\ period_text = <<>>
    /\ period_list = <<>>
    /\ ppc = "idle"

StoreIdle ==
    /\ documents = <<>>
    /\ next_id = 1
    /\ response = NoResponse
    /\ successes = [i \in 1..MaxDocs |-> 0]
    /\ llm_calls = 0

AnalyzeIdle ==
    /\ num_chunks = 0
    /\ loop_i = 0
    /\ calls = <<>>
    /\ answers = <<>>
    /\ loop_results = <<>>
    /\ merge_args = <<>>
    /\ merge_invoked = FALSE
    /\ returned = Outcome(FALSE, EmptyResult)
    /\ apc = "idle"

ThreadsIdle ==
    /\ thr_pc = [t \in 1..MaxThreads |-> "idle"]
    /\ thr_endpoint = [t \in 1..MaxThreads |-> ""]
    /\ thr_doc = [t \in 1..MaxThreads |-> Doc(<<>>, <<>>)]
    /\ thr_response = [t \in 1..MaxThreads |-> NoResponse]

ChunkInit ==
    /\ MergeIdle
    /\ AnalyzeIdle
    /\ ThreadsIdle
    /\ SanitizeIdle
    /\ FinanceIdle
    /\ PeriodsIdle
    /\ StoreIdle
    /\ text \in Texts
    /\ max_tokens \in 1..MaxTokens
    /\ overlap_tokens \in 0..MaxOverlap
    /\ chunks = <<>>
    /\ cpc = "input"

ChunkText ==
    /\ cpc = "input"
    /\ chunks' = chunk_text(text, max_tokens, overlap_tokens)
    /\ cpc' = "done"
    /\ UNCHANGED <<text, max_tokens, overlap_tokens, mergeVars, sanitizeVars, financeVars, periodVars, storeVars, analyzeVars, threadVars>>

ChunkNext == ChunkText

SpecChunk == ChunkInit /\ [][ChunkNext]_vars

\* sub occurs in s as a contiguous substring
IsSubstring(sub, s) ==
    \E i \in 1..(Len(s) + 1) :
        /\ i + Len(sub) - 1 <= Len(s)
        /\ SubSeq(s, i, i + Len(sub) - 1) = sub

\* the '. '-delimited sentences of t, each with its '. ' re-appended
Sentences(t) ==
    LET parts == Split(t, PeriodSpace)
    IN [i \in 1..Len(parts) |-> Strip(parts[i]) \o PeriodSpace]

\* C3 (as stated): whenever estimate_tokens(text) = len(text) // 4 is at most
\* max_tokens, chunk_text returns exactly one chunk, equal to the text; it
\* splits only when needs_chunking(text, max_tokens) is true.
C3_SingleChunkByEstimate ==
    cpc = "done" =>
        /\ (estimate_tokens(text) <= max_tokens => chunks = <<text>>)
        /\ (chunks # <<text>> => needs_chunking(text, max_tokens))

\* C3 (amended): whenever len(text) is at most max_tokens * 4 characters,
\* chunk_text returns exactly one chunk, equal to the text.
C3_SingleChunkByChars ==
    cpc = "done" /\ Len(text) <= max_tokens * 4 => chunks = <<text>>

C3_Witness ==
    /\ cpc = "done"
    /\ Len(text) = max_tokens * 4
    /\ chunks = <<text>>

\* C4: in a result of two or more chunks the first chunk is a contiguous
\* substring of the text, and every later chunk starts with a non-empty
\* overlap of at most overlap_tokens * 4 characters that ends the chunk
\* before it, the rest of the chunk being a contiguous substring of the text.
C4_OverlapAndSubstring ==
    cpc = "done" /\ Len(chunks) >= 2 =>
        /\ IsSubstring(chunks[1], text)
        /\ \A i \in 2..Len(chunks) :
              \E k \in 1..(overlap_tokens * 4) :
                  /\ k <= Len(chunks[i])
                  /\ k <= Len(chunks[i - 1])
                  /\ SubSeq(chunks[i], 1, k) =
                        SubSeq(chunks[i - 1], Len(chunks[i - 1]) - k + 1, Len(chunks[i - 1]))
                  /\ IsSubstring(From(chunks[i], k + 1), text)

\* C5: if every sentence of the text, with '. ' re-appended, is at most
\* max_tokens * 4 characters long, every returned chunk is at most
\* max_tokens * 4 characters long.
C5_ChunksFitBudget ==
    cpc = "done" /\ (\A i \in DOMAIN Sentences(text) :
                        Len(Sentences(text)[i]) <= max_tokens * 4) =>
        \A j \in DOMAIN chunks : Len(chunks[j]) <= max_tokens * 4

----------------------------------------------------------------------------
(* merge_results applied to sequences of chunk results.                    *)

STR_p1 == <<"p", "1">>

STR_p2 == <<"p", "2">>

STR_p3 == <<"p", "3">>

STR_p4 == <<"p", "4">>

STR_p5 == <<"p", "5">>

STR_p6 == <<"p", "6">>

STR_p7 == <<"p", "7">>

STR_5pct == <<"5", "%">>

STR_8pct == <<"8", "%">>

STR_10pct_growth == <<"1", "0", "%", " ", "g", "r", "o", "w", "t", "h">>

Guidance(revenue, margin, capex) ==
    Dict([revenue |-> revenue, margin |-> margin, capex |-> capex, other |-> ScAbsent])

Items(strings) == List([i \in DOMAIN strings |-> ScStr(strings[i])])

\* a chunk result as the prompt asks for it
BaseResult ==
    [management_tone |-> Str(STR_optimistic),
     confidence_level |-> Str(STR_high),
     key_positives |-> List(<<>>),
     key_concerns |-> List(<<>>),
     forward_guidance |-> Dict(DefaultGuidance),
     capacity_utilization_trends |-> Str(STR_NotMentioned),
     growth_initiatives |-> List(<<>>)]

\* chunk results that differ in the two voted fields
ToneResults ==
    {[BaseResult EXCEPT !.management_tone = tc[1], !.confidence_level = tc[2]] :
        tc \in {<<Str(STR_optimistic), Str(STR_high)>>,
                <<Str(STR_cautious), Str(STR_low)>>,
                <<Str(STR_cautious), Str(STR_high)>>,
                <<Str(STR_NotMentioned), Str(STR_NotMentioned)>>,
                <<Absent, Absent>>}}

\* chunk results that differ in the three list fields
ListResults ==
    {[BaseResult EXCEPT !.key_positives = ls[1], !.key_concerns = ls[2],
                        !.growth_initiatives = ls[3]] :
        ls \in {<<Items(<<STR_p1, STR_p2, STR_p3>>), Items(<<STR_p1, STR_p1>>), Absent>>,
                <<Items(<<STR_p4, STR_empty, STR_p1>>), Items(<<STR_NotMentioned, STR_p2>>),
                  Str(STR_p1)>>,
                <<Items(<<STR_NotMentioned, STR_p5, STR_p6>>), Items(<<STR_p3, STR_p1>>),
                  Items(<<STR_p1>>)>>,
                <<Items(<<STR_p6, STR_p7>>), Items(<<>>), Items(<<STR_p2, STR_p1>>)>>}}

\* chunk results that differ in forward_guidance and capacity_utilization_trends
GuidanceResults ==
    {[BaseResult EXCEPT !.forward_guidance = gt[1], !.capacity_utilization_trends = gt[2]] :
        gt \in {<<Guidance(ScStr(STR_5pct), ScStr(STR_NotMentioned), ScAbsent), Str(STR_p1)>>,
                <<Guidance(ScStr(STR_8pct), ScStr(STR_5pct), ScStr(STR_empty)), Str(STR_p2)>>,
                <<Guidance(ScStr(STR_10pct_growth), ScStr(STR_8pct), ScNull), Str(STR_empty)>>,
                <<Guidance(ScStr(STR_5pct), ScStr(STR_5pct), ScStr(STR_5pct)), Absent>>,
                <<Guidance(ScStr(STR_5pct), ScStr(STR_8pct), ScStr(STR_10pct_growth)),
                  Str(STR_p3)>>,
                <<Absent, Str(STR_p1)>>}}

ChunkResults == ToneResults \cup ListResults \cup GuidanceResults

MergeInit ==
    /\ ChunkIdle
    /\ AnalyzeIdle
    /\ ThreadsIdle
    /\ SanitizeIdle
    /\ FinanceIdle
    /\ PeriodsIdle
    /\ StoreIdle
    /\ chunk_results \in UNION {[1..n -> ChunkResults] : n \in 1..MaxChunks}
    /\ merged = EmptyResult
    /\ mpc = "input"

MergeResults ==
    /\ mpc = "input"
    /\ merged' \in merge_results(chunk_results)
    /\ chunk_results' = results_after_merge(chunk_results)
    /\ mpc' = "done"
    /\ UNCHANGED <<chunkVars, sanitizeVars, financeVars, periodVars, storeVars, analyzeVars, threadVars>>

MergeNext == MergeResults

SpecMerge == MergeInit /\ [][MergeNext]_vars

\* the values of a voted field that the chunks give, sentinel excluded
GivenValues(key) ==
    SelectSeq([i \in DOMAIN chunk_results |-> chunk_results[i][key]],
              LAMBDA v : v.t # "absent" /\ v # Str(STR_NotMentioned))

\* the value of highest count, the earliest in chunk order among ties
StableArgmax(votes) ==
    votes[CHOOSE i \in DOMAIN votes :
            /\ \A j \in DOMAIN votes : Count(votes, votes[i]) >= Count(votes, votes[j])
            /\ \A j \in 1..(i - 1) : Count(votes, votes[j]) < Count(votes, votes[i])]

\* C6: for two or more chunk results that all carry the field, the merged
\* management_tone (confidence_level) is the most frequent non-sentinel value,
\* and among values of equal highest count the one that occurs first in chunk
\* order.
C6_MajorityFirstWins ==
    mpc = "done" /\ Len(chunk_results) >= 2 =>
        \A key \in {"management_tone", "confidence_level"} :
            (/\ \A i \in DOMAIN chunk_results : chunk_results[i][key].t # "absent"
             /\ GivenValues(key) # <<>>)
            => merged[key] = StableArgmax(GivenValues(key))

\* C7: for two or more chunk results, if in every chunk management_tone is
\* 'Not mentioned' or absent the merged management_tone is 'neutral', and under
\* the same condition on confidence_level the merged value is 'medium'.
C7_DefaultWhenNoValue ==
    mpc = "done" /\ Len(chunk_results) >= 2 =>
        /\ (GivenValues("management_tone") = <<>> => merged.management_tone = Str(STR_neutral))
        /\ (GivenValues("confidence_level") = <<>> => merged.confidence_level = Str(STR_medium))

\* the chunks' lists of a list field, concatenated in chunk order
RECURSIVE Concatenated(_, _)
Concatenated(key, i) ==
    IF i > Len(chunk_results) THEN <<>>
    ELSE (IF chunk_results[i][key].t = "list" THEN chunk_results[i][key].l ELSE <<>>)
         \o Concatenated(key, i + 1)

\* the positions of a sequence that hold a non-empty, non-sentinel string for
\* the first time
FirstOccurrences(seq) ==
    {i \in DOMAIN seq :
        /\ seq[i].s # <<>>
        /\ seq[i] # ScStr(STR_NotMentioned)
        /\ \A j \in 1..(i - 1) : seq[j] # seq[i]}

\* C8: for two or more chunk results each merged list field is exactly the
\* first 5 entries of the chunks' lists concatenated in chunk order with empty
\* entries and 'Not mentioned' dropped and only first occurrences kept.
C8_ListUnionFirstFive ==
    mpc = "done" /\ Len(chunk_results) >= 2 =>
        \A n \in DOMAIN ListFields :
            LET seq == Concatenated(ListFields[n], 1)
                kept == FirstOccurrences(seq)
                out == merged[ListFields[n]]
            IN /\ out.t = "list"
               /\ Len(out.l) = Min(5, Cardinality(kept))
               /\ \A m \in DOMAIN out.l :
                     \E i \in kept : /\ Cardinality({j \in kept : j < i}) = m - 1
                                     /\ out.l[m] = seq[i]

C8_Witness ==
    /\ mpc = "done"
    /\ Len(chunk_results) >= 2
    /\ Cardinality(FirstOccurrences(Concatenated("key_positives", 1))) > 5
    /\ Len(merged.key_positives.l) = 5
    /\ \E i \in DOMAIN Concatenated("key_positives", 1) :
          /\ Concatenated("key_positives", 1)[i].s # <<>>
          /\ \E j \in 1..(i - 1) :
                Concatenated("key_positives", 1)[j] = Concatenated("key_positives", 1)[i]

\* the distinct members of a sequence in order of first occurrence
RECURSIVE InFirstOccurrenceOrder(_, _)
InFirstOccurrenceOrder(seq, seen) ==
    IF seq = <<>> THEN <<>>
    ELSE IF Head(seq) \in seen THEN InFirstOccurrenceOrder(Tail(seq), seen)
    ELSE <<Head(seq)>> \o InFirstOccurrenceOrder(Tail(seq), seen \cup {Head(seq)})

\* C9: for two or more chunk results and each forward_guidance key, the merged
\* value is 'Not mentioned' if no chunk gives a value, that value if all given
\* values are the same string, and otherwise every distinct string once, joined
\* by ' | ' in the order of first occurrence across chunks.
C9_GuidanceJoinedInOrder ==
    mpc = "done" /\ Len(chunk_results) >= 2 =>
        \A n \in DOMAIN GuidanceKeys :
            LET given == GuidanceValues(chunk_results, GuidanceKeys[n], 1)
                out == merged.forward_guidance.d[GuidanceKeys[n]]
            IN IF given = <<>> THEN out = ScStr(STR_NotMentioned)
               ELSE out = ScStr(Join(InFirstOccurrenceOrder(given, {}), STR_Sep))

----------------------------------------------------------------------------
(* sanitize_output and validate_analysis_output applied to dictionaries    *)
(* with fields of any JSON type.                                           *)

ToneInputs ==
    {Absent, Str(STR_optimistic), Str(STR_Optimistic), Str(STR_bullish), Num(<<"5">>), Null}

ConfidenceInputs == {Absent, Str(STR_high), Str(STR_NotMentioned), Null}

ListInputs ==
    {Absent, Str(STR_NotMentioned), Str(STR_p1), Null,
     List(<<ScStr(STR_p1), ScNum(<<"0">>)>>), Items(<<STR_NotMentioned>>)}

FewListInputs == {Absent, Str(STR_not_mentioned), Items(<<STR_p1, STR_p2>>)}

GuidanceInputs ==
    {Absent, Str(STR_5pct), Dict(DefaultGuidance),
     Guidance(ScStr(STR_5pct), ScAbsent, ScStr(STR_NotMentioned)),
     Guidance(ScStr(STR_5pct), ScNum(<<"5">>), ScNull),
     Dict([DefaultGuidance EXCEPT !.other = ScStr(STR_p1)])}

TrendInputs == {Absent, Str(STR_p1), Num(<<"5">>)}

RawResults ==
    {[management_tone |-> t, confidence_level |-> c, key_positives |-> kp,
      key_concerns |-> kc, forward_guidance |-> fg,
      capacity_utilization_trends |-> tr, growth_initiatives |-> gi] :
        t \in ToneInputs, c \in ConfidenceInputs, kp \in ListInputs,
        kc \in FewListInputs, fg \in GuidanceInputs, tr \in TrendInputs,
        gi \in FewListInputs}

SanitizeInit ==
    /\ ChunkIdle
    /\ AnalyzeIdle
    /\ ThreadsIdle
    /\ MergeIdle
    /\ FinanceIdle
    /\ PeriodsIdle
    /\ StoreIdle
    /\ raw \in RawResults
    /\ sanitized = EmptyResult
    /\ spc = "input"
    /\ resanitized = EmptyResult
    /\ validated = EmptyResult
    /\ validation = NoVerdict

SanitizeOutput ==
    /\ spc = "input"
    /\ sanitized' = sanitize_output(raw)
    /\ raw' = result_after_sanitize(raw)
    /\ spc' = "done"
    /\ UNCHANGED <<resanitized, validated, validation, chunkVars, mergeVars, financeVars, periodVars, storeVars, analyzeVars, threadVars>>

\* sanitize_output called on its own result
SanitizeAgain ==
    /\ spc = "done"
    /\ resanitized' = sanitize_output(sanitized)
    /\ sanitized' = result_after_sanitize(sanitized)
    /\ spc' = "again"
    /\ UNCHANGED <<raw, validated, validation, chunkVars, mergeVars, financeVars, periodVars, storeVars, analyzeVars, threadVars>>

\* validate_analysis_output called on the sanitized result (app.py:159)
Validate ==
    /\ spc = "done"
    /\ validation' = validate_analysis_output(sanitized)
    /\ validated' = result_after_validate(sanitized)
    /\ spc' = "validated"
    /\ UNCHANGED <<raw, sanitized, resanitized, chunkVars, mergeVars, financeVars, periodVars, storeVars, analyzeVars, threadVars>>

\* validate_analysis_output called on a result that was not sanitized
ValidateRaw ==
    /\ spc = "input"
    /\ validation' = validate_analysis_output(raw)
    /\ validated' = result_after_validate(raw)
    /\ spc' = "validated_raw"
    /\ UNCHANGED <<raw, sanitized, resanitized, chunkVars, mergeVars, financeVars, periodVars, storeVars, analyzeVars, threadVars>>

SanitizeNext ==
    \/ SanitizeOutput
    \/ SanitizeAgain
    \/ Validate
    \/ ValidateRaw

SpecSanitize == SanitizeInit /\ [][SanitizeNext]_vars

\* C10: the result of sanitize_output has all seven fields, its
\* management_tone is one of optimistic/cautious/neutral/pessimistic and its
\* confidence_level one of high/medium/low.
C10_SanitizedIsComplete ==
    spc = "done" =>
        /\ \A i \in DOMAIN required_fields : sanitized[required_fields[i]].t # "absent"
        /\ sanitized.management_tone.t = "str"
        /\ sanitized.management_tone.s \in valid_tones
        /\ sanitized.confidence_level.t = "str"
        /\ sanitized.confidence_level.s \in valid_levels

\* C11: sanitize_output is idempotent and leaves its argument unchanged:
\* sanitizing a sanitized result returns that same result, and after either
\* call the dictionary passed in holds what it held before the call.
C11_SanitizeIdempotent ==
    /\ [](spc = "again" => resanitized = sanitized)
    /\ [][(spc = "input" /\ spc' = "done") => raw' = raw]_vars
    /\ [][(spc = "done" /\ spc' = "again") => sanitized' = sanitized]_vars

C11_Witness ==
    /\ spc = "again"
    /\ raw.key_positives.t = "str"
    /\ raw.management_tone.t = "null"
    /\ raw.forward_guidance.t = "str"
    /\ sanitized # raw
    /\ resanitized = sanitized

\* the field fails the check that validate_analysis_output applies to it
Offending(result, field) ==
    \/ result[field].t = "absent"
    \/ field = "management_tone" /\ ~validate_tone(result[field])
    \/ field = "confidence_level" /\ ~validate_confidence(result[field])
    \/ field \in Range(ListFields) /\ ~validate_list_field(result[field])
    \/ field = "forward_guidance" /\ ~validate_forward_guidance(result[field])
    \/ field = "capacity_utilization_trends" /\ result[field].t # "str"

\* C12: validating a sanitized dictionary never raises; a verdict of False
\* names a field that is missing or fails its check, and the validated
\* dictionary holds after the call what it held before.
C12_ValidateAfterSanitizeNeverRaises ==
    spc = "validated" =>
        /\ ~validation.raised
        /\ ~validation.ok =>
               /\ validation.field \in Range(required_fields)
               /\ Offending(sanitized, validation.field)
        /\ validation.ok => validation.reason = "Valid"
        /\ validated = sanitized

C12_Witness ==
    /\ spc = "validated"
    /\ raw.management_tone.t \in {"num", "null"}
    /\ raw.key_positives.t = "null"
    /\ ~validation.raised
    /\ ~validation.ok
    /\ validation.field = "forward_guidance"

HasRequiredGuidance(guidance) ==
    /\ guidance.t = "dict"
    /\ \A i \in DOMAIN GuidanceKeys : guidance.d[GuidanceKeys[i]].t = "str"

----------------------------------------------------------------------------
(* Steps 5 and 6 of financial_extract applied to the line items an LLM may  *)
(* return for a document that mentions FY25, or FY25 and FY24.  Values are *)
(* JSON numbers or null.                                                   *)

STR_FY25_only == <<"F", "Y", "2", "5">>

STR_FY25_FY24 == <<"F", "Y", "2", "5", " ", "F", "Y", "2", "4">>

FinanceTexts == {STR_FY25_only, STR_FY25_FY24}

Vals(v25, v24) == [p \in PeriodNames |-> IF p = FY25 THEN v25 ELSE v24]

\* what the LLM may return for one item name: nothing, or values
Choices(name, valueDicts) ==
    {ItemData("", NoValues)} \cup {ItemData(name, values) : values \in valueDicts}

\* the list without the items the LLM did not return
Returned(list) == SelectSeq(list, LAMBDA item_data : item_data.name # "")

ExtractionResults ==
    {Returned(<<ops, oi, cost, emp, oe, tr, gp>>) :
        ops \in Choices("Revenue from operations",
                        {Vals(a, b) : a \in {NoValue, NullValue, Amount(0), Amount(100)},
                                      b \in {NoValue, Amount(80)}}),
        oi \in Choices("Other income",
                       {Vals(a, b) : a \in {NullValue, Amount(0), Amount(5)},
                                     b \in {NoValue, Amount(4)}}),
        cost \in Choices("Cost of materials consumed",
                         {Vals(a, b) : a \in {NoValue, NullValue, Amount(60)},
                                       b \in {NullValue, Amount(50)}}),
        emp \in Choices("Employee benefits expense",
                        {Vals(a, NoValue) : a \in {NullValue, Amount(10)}}),
        oe \in Choices("Other expenses", {Vals(a, Amount(7)) : a \in {NoValue, Amount(7)}}),
        tr \in Choices("Total Revenue",
                       {Vals(Amount(100), NullValue), Vals(Amount(0), Amount(90))}),
        gp \in Choices("Gross Profit", {Vals(Amount(1), NoValue)})}

FinanceInit ==
    /\ ChunkIdle
    /\ AnalyzeIdle
    /\ ThreadsIdle
    /\ MergeIdle
    /\ SanitizeIdle
    /\ PeriodsIdle
    /\ StoreIdle
    /\ fin_periods \in {extract_periods_from_text(t) : t \in FinanceTexts}
    /\ fin_extraction \in ExtractionResults
    /\ fin_line_items = NoLineItems
    /\ fin_calculated = NoCalculated
    /\ fin_rendered = NoLineItems
    /\ fpc = "input"

\* app.py lines 233-255
FinancialLineItems ==
    /\ fpc = "input"
    /\ fin_line_items' =
           add_total_revenue(ConvertLineItems(fin_extraction, 1, NoLineItems), fin_periods)
    /\ fin_calculated' = calculate_derived_metrics(fin_line_items')
    /\ fin_rendered' = update(fin_line_items', fin_calculated')
    /\ fpc' = "done"
    /\ UNCHANGED <<fin_periods, fin_extraction, chunkVars, mergeVars, sanitizeVars,
                   periodVars, storeVars, analyzeVars, threadVars>>

FinanceNext == FinancialLineItems

SpecFinance == FinanceInit /\ [][FinanceNext]_vars

\* the item has a non-null value for the period
HasNumber(item, p) == item.present /\ item.values[p].k = "num"

HasKey(item, p) == item.values[p].k # "absent"

\* C14: calculate_derived_metrics returns a Gross Profit item with a value
\* for exactly the periods in which Total Revenue and Cost of materials
\* consumed are both non-null, equal to revenue minus cost and with status
\* calculated; it returns no Gross Profit item when there is no such period.
C14_GrossProfit ==
    fpc = "done" =>
        LET revenue == fin_line_items["Total Revenue"]
            cogs == fin_line_items["Cost of materials consumed"]
            gp == fin_calculated["Gross Profit"]
            both == {p \in PeriodNames : HasNumber(revenue, p) /\ HasNumber(cogs, p)}
        IN /\ gp.present <=> both # {}
           /\ \A p \in both :
                 /\ gp.values[p] = Amount(revenue.values[p].n - cogs.values[p].n)
                 /\ gp.status[p] = "calculated"
           /\ \A p \in PeriodNames \ both : ~HasKey(gp, p)

C14_Witness ==
    /\ fpc = "done"
    /\ fin_calculated["Gross Profit"].values[FY25] = Amount(40)
    /\ ~HasKey(fin_calculated["Gross Profit"], FY24)
    /\ HasNumber(fin_line_items["Total Revenue"], FY24)
    /\ fin_line_items["Cost of materials consumed"].values[FY24] = NullValue

\* C15: Gross Margin has a value for exactly the periods that have a Gross
\* Profit and a non-null, non-zero Total Revenue; no value is a quotient by
\* zero; a period with Total Revenue 0 has a Gross Profit and no Gross
\* Margin; without such a period no Gross Margin item is returned.
C15_GrossMarginGuardsZero ==
    fpc = "done" =>
        LET revenue == fin_line_items["Total Revenue"]
            gp == fin_calculated["Gross Profit"]
            gm == fin_calculated["Gross Margin"]
            ok == {p \in PeriodNames :
                      /\ HasNumber(gp, p)
                      /\ HasNumber(revenue, p)
                      /\ revenue.values[p].n # 0}
        IN /\ gm.present <=> ok # {}
           /\ \A p \in ok :
                 /\ gm.values[p] = Ratio(gp.values[p].n, revenue.values[p].n)
                 /\ gm.values[p].d # 0
                 /\ gm.status[p] = "calculated"
           /\ \A p \in PeriodNames \ ok : ~HasKey(gm, p)

C15_Witness ==
    /\ fpc = "done"
    /\ fin_line_items["Total Revenue"].values[FY25] = Amount(0)
    /\ HasNumber(fin_calculated["Gross Profit"], FY25)
    /\ fin_calculated["Gross Margin"].present
    /\ ~HasKey(fin_calculated["Gross Margin"], FY25)
    /\ HasNumber(fin_calculated["Gross Margin"], FY24)

\* the expense of the period, 0 when the item, the period or the value is missing
ExpenseOrZero(item, p) == IF HasNumber(item, p) THEN item.values[p].n ELSE 0

\* C16: EBITDA has a value for exactly the periods that have a Gross Profit,
\* equal to Gross Profit minus Employee benefits expense minus Other
\* expenses, an expense that is absent or null counting as 0.
C16_Ebitda ==
    fpc = "done" =>
        LET gp == fin_calculated["Gross Profit"]
            eb == fin_calculated["EBITDA"]
            emp == fin_line_items["Employee benefits expense"]
            other == fin_line_items["Other expenses"]
        IN /\ eb.present <=> gp.present
           /\ \A p \in PeriodNames :
                 IF HasNumber(gp, p)
                 THEN /\ eb.values[p] = Amount(gp.values[p].n - ExpenseOrZero(emp, p)
                                                  - ExpenseOrZero(other, p))
                      /\ eb.status[p] = "calculated"
                 ELSE ~HasKey(eb, p)

C16_Witness ==
    /\ fpc = "done"
    /\ fin_calculated["Gross Profit"].values[FY25] = Amount(40)
    /\ fin_line_items["Employee benefits expense"].present
    /\ fin_line_items["Employee benefits expense"].values[FY25] = NullValue
    /\ fin_line_items["Other expenses"].values[FY25] = Amount(7)
    /\ fin_calculated["EBITDA"].values[FY25] = Amount(33)
    /\ HasNumber(fin_calculated["EBITDA"], FY24)
    /\ ~HasKey(fin_line_items["Employee benefits expense"], FY24)

\* Total Revenue of line_items is the item computed at lines 244-251, not
\* one the LLM returned
ComputedTotalRevenue ==
    /\ fin_line_items["Total Revenue"].present
    /\ fin_line_items["Total Revenue"] #
           ConvertLineItems(fin_extraction, 1, NoLineItems)["Total Revenue"]

\* C17: a computed Total Revenue item is in line_items only if Revenue from
\* operations and Other income are both present and have a common period
\* with non-null values; it then has a value for exactly these periods,
\* their sum, with status calculated.
C17_TotalRevenueOnlyIfComputable ==
    (fpc = "done" /\ ComputedTotalRevenue) =>
        LET ops == fin_line_items["Revenue from operations"]
            other == fin_line_items["Other income"]
            tr == fin_line_items["Total Revenue"]
            both == {p \in PeriodNames : HasNumber(ops, p) /\ HasNumber(other, p)}
        IN /\ ops.present /\ other.present
           /\ both # {}
           /\ \A p \in both :
                 /\ tr.values[p] = Amount(ops.values[p].n + other.values[p].n)
                 /\ tr.status[p] = "calculated"
           /\ \A p \in PeriodNames \ both : ~HasKey(tr, p)

\* the item of this name in the rendered line_items was produced by calculation
ProducedByCalculation(name) ==
    \/ name \in CalculatedNames /\ fin_calculated[name].present
    \/ /\ name = "Total Revenue"
       /\ fin_line_items["Revenue from operations"].present
       /\ fin_line_items["Other income"].present

\* C18: in the line_items handed to generate_excel_data every period of an
\* item's values is a period of its status; a calculated item has status
\* calculated for exactly the periods of its values, and an item taken from
\* the LLM response has status extracted.
C18_StatusCoversValues ==
    fpc = "done" =>
        \A name \in ItemNames :
            LET item == fin_rendered[name] IN
            item.present =>
                \A p \in PeriodNames :
                    /\ HasKey(item, p) => item.status[p] # ""
                    /\ IF ProducedByCalculation(name)
                       THEN item.status[p] = (IF HasKey(item, p) THEN "calculated" ELSE "")
                       ELSE item.status[p] \in {"", "extracted"}

C18_Witness ==
    /\ fpc = "done"
    /\ \A name \in CalculatedNames \cup {"Total Revenue"} :
          /\ ProducedByCalculation(name)
          /\ fin_rendered[name].status[FY25] = "calculated"
    /\ fin_rendered["Employee benefits expense"].values[FY25] = NullValue
    /\ fin_rendered["Employee benefits expense"].status[FY25] = "extracted"
    /\ fin_rendered["Employee benefits expense"].status[FY24] = ""

----------------------------------------------------------------------------
(* extract_periods_from_text applied to texts put together from mentions   *)
(* of fiscal years.                                                        *)

Fragments ==
    {<<"F", "Y">>, <<"f", "i", "s", "c", "a", "l", " ", "y", "e", "a", "r", " ">>,
     <<"y", "e", "a", "r", " ", "e", "n", "d", "e", "d", " ">>,
     <<"1", "9", "9", "9">>, <<"2", "0", "0", "0">>, <<"2", "4">>, <<" ">>}

RECURSIVE Concat(_)
Concat(strings) ==
    IF strings = <<>> THEN <<>> ELSE Head(strings) \o Concat(Tail(strings))

PeriodTexts == {Concat(fs) : fs \in UNION {[1..n -> Fragments] : n \in 0..MaxFragments}}

PeriodsInit ==
    /\ ChunkIdle
    /\ AnalyzeIdle
    /\ ThreadsIdle
    /\ MergeIdle
    /\ SanitizeIdle
    /\ FinanceIdle
    /\ StoreIdle
    /\ period_text \in PeriodTexts
    /\ period_list = <<>>
    /\ ppc = "input"

ExtractPeriods ==
    /\ ppc = "input"
    /\ period_list' = extract_periods_from_text(period_text)
    /\ ppc' = "done"
    /\ UNCHANGED <<period_text, chunkVars, mergeVars, sanitizeVars, financeVars, storeVars, analyzeVars, threadVars>>

PeriodsNext == ExtractPeriods

SpecPeriods == PeriodsInit /\ [][PeriodsNext]_vars

\* the number a string of digits stands for
RECURSIVE YearValue(_)
YearValue(year) ==
    IF year = <<>> THEN 0
    ELSE 10 * YearValue(SubSeq(year, 1, Len(year) - 1)) + DigitValue(year[Len(year)])

\* the four-digit years that a pattern matches in the text
FourDigitYears(t) ==
    {y \in UNION {{Matches(p, t, 1)[k].year : k \in DOMAIN Matches(p, t, 1)} : p \in 2..4} :
        Len(y) = 4}

IndexOf(list, x) == CHOOSE i \in DOMAIN list : list[i] = x

\* C19: the list returned has no duplicates and is ordered most recent first:
\* of two fiscal years matched in the text that have different tokens, the
\* token of the later year comes before the token of the earlier year.
C19_MostRecentFirst ==
    ppc = "done" =>
        /\ \A i, j \in DOMAIN period_list : i # j => period_list[i] # period_list[j]
        /\ \A y1, y2 \in FourDigitYears(period_text) :
              (YearValue(y1) > YearValue(y2) /\ PeriodOf(y1) # PeriodOf(y2)) =>
                  /\ PeriodOf(y1) \in Range(period_list)
                  /\ PeriodOf(y2) \in Range(period_list)
                  /\ IndexOf(period_list, PeriodOf(y1)) < IndexOf(period_list, PeriodOf(y2))

\* the years mentioned in the text: the four digits of a match of 'FY dddd',
\* 'fiscal year dddd' or 'year ended ... dddd', and the two digits of a match
\* of 'FY dd' that is not the beginning of a mention 'FY dddd'
MentionedYears(t) ==
    FourDigitYears(t) \cup
    {Matches(1, t, 1)[k].year : k \in {k \in DOMAIN Matches(1, t, 1) :
                                          MatchAt(2, t, Matches(1, t, 1)[k].start).end = 0}}

\* C20: the tokens returned are exactly 'FY' + the last two digits of the
\* years mentioned in the text, a four-digit mention such as 'FY2000' giving
\* 'FY00' and no other token.
C20_TokensOfMentions ==
    ppc = "done" =>
        Range(period_list) = {PeriodOf(y) : y \in MentionedYears(period_text)}

----------------------------------------------------------------------------
(* The server handling /upload, /analyze and /financial-extract requests   *)
(* one at a time.                                                          *)

STR_FY25 == <<"F", "Y", "2", "5", " ", "r", "e", "v", "e", "n", "u", "e">>

STR_Q4 == <<"Q", "4", " ", "c", "a", "l", "l", ".", " ">>

STR_year_ended == <<"y", "e", "a", "r", " ", "e", "n", "d", "e", "d", " ", "M", "a", "r", "c", "h", " ", "2", "0", "2", "4">>

DocTexts == {STR_FY25, STR_Q4, STR_year_ended}

UploadData ==
    {[json |-> FALSE, has_text |-> FALSE, text |-> <<>>, filename |-> STR_document_txt],
     [json |-> TRUE, has_text |-> FALSE, text |-> <<>>, filename |-> STR_call_txt],
     [json |-> TRUE, has_text |-> TRUE, text |-> <<>>, filename |-> STR_call_txt],
     [json |-> TRUE, has_text |-> TRUE, text |-> <<" ", " ">>, filename |-> STR_document_txt]}
    \cup {[json |-> TRUE, has_text |-> TRUE, text |-> t, filename |-> STR_call_txt] :
             t \in DocTexts}

\* the objects and failures the LLM answers a call with
LLMResponses ==
    {LLMResponse("api_error", EmptyResult),
     LLMResponse("not_json", EmptyResult),
     LLMResponse("not_dict", EmptyResult),
     LLMResponse("dict", EmptyResult),
     LLMResponse("dict", BaseResult),
     LLMResponse("dict", [BaseResult EXCEPT !.management_tone = Str(STR_bullish)]),
     LLMResponse("dict", [BaseResult EXCEPT !.management_tone = Null,
                                            !.key_positives = Str(STR_p1)]),
     LLMResponse("dict", [BaseResult EXCEPT !.forward_guidance =
                              Guidance(ScStr(STR_5pct), ScAbsent, ScStr(STR_8pct))])}

Init ==
    /\ ChunkIdle
    /\ AnalyzeIdle
    /\ ThreadsIdle
    /\ MergeIdle
    /\ SanitizeIdle
    /\ FinanceIdle
    /\ PeriodsIdle
    /\ StoreIdle

Upload(data) ==
    /\ next_id <= MaxDocs
    /\ response' = upload_response(data)
    /\ IF upload_response(data).code = 200
       THEN /\ documents' = Put(documents, next_id, Doc(data.text, data.filename))
            /\ next_id' = next_id + 1
       ELSE UNCHANGED <<documents, next_id>>
    /\ llm_calls' = 0
    /\ UNCHANGED <<successes, chunkVars, mergeVars, sanitizeVars, financeVars, periodVars, analyzeVars, threadVars>>

\* a request without document_id in its body (lines 119-121 and 200-202)
BadRequest(endpoint) ==
    /\ response' = Response(endpoint, 0, 400, {"error"}, "document_id required", EmptyResult)
    /\ llm_calls' = 0
    /\ UNCHANGED <<documents, next_id, successes, chunkVars, mergeVars, sanitizeVars, financeVars, periodVars, analyzeVars, threadVars>>

Analyze(document_id) ==
    /\ IF document_id \notin DOMAIN documents
       THEN /\ response' = Response("/analyze", document_id, 404, {"error"},
                                    "Document not found", EmptyResult)
            /\ llm_calls' = 0
            /\ UNCHANGED <<documents, successes>>
       ELSE LET doc == documents[document_id]
                chunkList == IF needs_chunking(doc.text, AnalyzeMaxTokens)
                             THEN chunk_text(doc.text, AnalyzeMaxTokens, DefaultOverlapTokens)
                             ELSE <<>>
            IN \E llms \in [1..NumCalls(chunkList) -> LLMResponses] :
                 \E outcome \in analyze_document(chunkList, llms) :
                    /\ response' = analyze_response(document_id, outcome)
                    /\ llm_calls' = CallsMade(llms)
                    /\ documents' = store_after(documents, document_id, response')
                    /\ successes' = IF response'.code = 200
                                    THEN [successes EXCEPT ![document_id] = @ + 1]
                                    ELSE successes
    /\ UNCHANGED <<next_id, chunkVars, mergeVars, sanitizeVars, financeVars, periodVars, analyzeVars, threadVars>>

FinancialExtract(document_id) ==
    /\ IF document_id \notin DOMAIN documents
       THEN /\ response' = Response("/financial-extract", document_id, 404, {"error"},
                                    "Document not found", EmptyResult)
            /\ llm_calls' = 0
            /\ UNCHANGED <<documents, successes>>
       ELSE \E llm \in {"api_error", "malformed", "ok"} :
               /\ response' = financial_response(document_id, documents[document_id], llm)
               /\ llm_calls' = financial_llm_calls(documents[document_id])
               /\ documents' = store_after(documents, document_id, response')
               /\ successes' = IF response'.code = 200
                               THEN [successes EXCEPT ![document_id] = @ + 1]
                               ELSE successes
    /\ UNCHANGED <<next_id, chunkVars, mergeVars, sanitizeVars, financeVars, periodVars, analyzeVars, threadVars>>

Next ==
    \/ \E data \in UploadData : Upload(data)
    \/ \E endpoint \in {"/analyze", "/financial-extract"} : BadRequest(endpoint)
    \/ \E document_id \in 1..MaxDocs : Analyze(document_id)
    \/ \E document_id \in 1..MaxDocs : FinancialExtract(document_id)

Spec == Init /\ [][Next]_vars

IsWork(endpoint) == endpoint \in {"/analyze", "/financial-extract"}

\* C1: an uploaded document is in the store exactly as long as no request on
\* its id has succeeded; a failing request leaves the store as it is; a
\* request on an id that already yielded a result is answered 404; so no
\* document yields more than one successful result.
C1_ConsumedAtMostOnce ==
    /\ [](\A id \in 1..MaxDocs :
            /\ successes[id] <= 1
            /\ (id \in DOMAIN documents <=> (id < next_id /\ successes[id] = 0)))
    /\ [][/\ (IsWork(response'.endpoint) /\ response'.code # 200
                 => documents' = documents /\ successes' = successes)
          /\ (IsWork(response'.endpoint) /\ response'.document_id \in 1..MaxDocs
                 /\ successes[response'.document_id] >= 1
                 => response'.code = 404 /\ response'.error = "Document not found")
          /\ (IsWork(response'.endpoint) /\ response'.code = 200
                 => /\ response'.document_id \in DOMAIN documents
                    /\ response'.document_id \notin DOMAIN documents'
                    /\ successes'[response'.document_id] = 1)]_vars

\* a document was consumed by one endpoint and the other endpoint then
\* answered 404 for it, while a document that only saw a failure is still stored
C1_Witness ==
    /\ \E id \in 1..MaxDocs : successes[id] = 1 /\ id \notin DOMAIN documents
    /\ response.code = 404
    /\ IsWork(response.endpoint)
    /\ successes[response.document_id] = 1

\* C2 (as stated): an /analyze response that reports an error contains only
\* the error description and no raw or sanitized LLM result.
C2_ErrorCarriesNoResult ==
    response.endpoint = "/analyze" /\ "error" \in response.keys =>
        /\ response.keys \subseteq {"error", "error_type"}
        /\ response.body = EmptyResult

\* C2 (amended): an /analyze response that reports an error never carries a
\* completed result ('analysis', 'status'); it carries only the error
\* description, except that the response to a validation failure also carries
\* the sanitized result, which fails validation, under 'raw_output'.
C2_ErrorCarriesNoAnalysis ==
    response.endpoint = "/analyze" /\ "error" \in response.keys =>
        /\ response.code # 200
        /\ "analysis" \notin response.keys
        /\ "status" \notin response.keys
        /\ \/ /\ response.keys \subseteq {"error", "error_type"}
              /\ response.body = EmptyResult
           \/ /\ response.keys = {"error", "raw_output"}
              /\ response.error = "Analysis output validation failed"
              /\ ~validate_analysis_output(response.body).ok

C2_Witness ==
    /\ response.endpoint = "/analyze"
    /\ response.keys = {"error", "raw_output"}
    /\ response.body.management_tone = Str(STR_bullish)

NoPeriods(id) ==
    id \in DOMAIN documents /\ extract_periods_from_text(documents[id].text) = <<>>

\* C21: a /financial-extract request on a stored document in whose text
\* extract_periods_from_text finds no period is answered 400 with the error
\* 'No financial periods found' and no spreadsheet, makes no LLM call and
\* leaves the store as it is; the next request on the same id is not
\* answered 'Document not found'.
C21_NoPeriodsIsInputError ==
    [][/\ (response'.endpoint = "/financial-extract" /\ NoPeriods(response'.document_id)
            => /\ response'.code = 400
               /\ response'.error = "No financial periods found"
               /\ response'.keys = {"error"}
               /\ llm_calls' = 0
               /\ documents' = documents
               /\ successes' = successes
               /\ response'.document_id \in DOMAIN documents')
       /\ (response.error = "No financial periods found"
            /\ IsWork(response'.endpoint)
            /\ response'.document_id = response.document_id
            => response'.code # 404)]_vars

\* a document without periods was refused by /financial-extract and is still
\* stored, after an earlier request of the run did call the LLM
C21_Witness ==
    /\ response.endpoint = "/financial-extract"
    /\ response.error = "No financial periods found"
    /\ response.code = 400
    /\ llm_calls = 0
    /\ NoPeriods(response.document_id)
    /\ \E id \in 1..MaxDocs : successes[id] = 1

----------------------------------------------------------------------------
(* analyze_document step by step: every call of analyze_chunk starts, the  *)
(* LLM answers it, and the loop goes on, ends or is left.                  *)

AnalyzeInit ==
    /\ ChunkIdle
    /\ MergeIdle
    /\ SanitizeIdle
    /\ FinanceIdle
    /\ PeriodsIdle
    /\ StoreIdle
    /\ ThreadsIdle
    /\ num_chunks \in 0..MaxChunks
    /\ loop_i = 1
    /\ calls = <<>>
    /\ answers = <<>>
    /\ loop_results = <<>>
    /\ merge_args = <<>>
    /\ merge_invoked = FALSE
    /\ returned = Outcome(FALSE, EmptyResult)
    /\ apc = IF num_chunks > 1 THEN "loop" ELSE "single"

\* analyze_chunk is entered: on chunk loop_i at line 256, on the only chunk
\* or the whole text (written 0) at line 264
CallAnalyzeChunk ==
    /\ \/ apc = "loop" /\ loop_i <= num_chunks /\ calls' = Append(calls, loop_i)
       \/ apc = "single" /\ calls' = Append(calls, 0)
    /\ apc' = "calling"
    /\ UNCHANGED <<num_chunks, loop_i, answers, loop_results, merge_args, merge_invoked,
                   returned, chunkVars, mergeVars, sanitizeVars, financeVars, periodVars,
                   storeVars, threadVars>>

\* the LLM answers the call in flight and analyze_chunk returns or raises
ReturnAnalyzeChunk(llm) ==
    /\ apc = "calling"
    /\ answers' = Append(answers, llm)
    /\ IF num_chunks > 1
       THEN IF loop_continues(analyze_chunk(llm))
            THEN /\ loop_results' = Append(loop_results, analyze_chunk(llm).value)
                 /\ loop_i' = loop_i + 1
                 /\ apc' = "loop"
                 /\ UNCHANGED returned
            ELSE /\ returned' = Outcome(TRUE, EmptyResult)
                 /\ apc' = "done"
                 /\ UNCHANGED <<loop_results, loop_i>>
       ELSE /\ returned' = analyze_chunk(llm)
            /\ apc' = "done"
            /\ UNCHANGED <<loop_results, loop_i>>
    /\ UNCHANGED <<num_chunks, calls, merge_args, merge_invoked, chunkVars, mergeVars,
                   sanitizeVars, financeVars, periodVars, storeVars, threadVars>>

\* line 260: the loop has ended and merge_results gets the results
MergeChunkResults ==
    /\ apc = "loop"
    /\ loop_i > num_chunks
    /\ merge_args' = loop_results
    /\ merge_invoked' = TRUE
    /\ \E m \in merge_results(loop_results) : returned' = Outcome(FALSE, m)
    /\ apc' = "done"
    /\ UNCHANGED <<num_chunks, loop_i, calls, answers, loop_results, chunkVars, mergeVars,
                   sanitizeVars, financeVars, periodVars, storeVars, threadVars>>

AnalyzeNext ==
    \/ CallAnalyzeChunk
    \/ \E llm \in LLMResponses : ReturnAnalyzeChunk(llm)
    \/ MergeChunkResults

SpecAnalyze == AnalyzeInit /\ [][AnalyzeNext]_vars

Failed(llm) == analyze_chunk(llm).raised

\* C22: for a document of n > 1 chunks analyze_document calls the LLM on the
\* chunks in chunk order, once each, a call starting only when every earlier
\* call has returned a result; merge_results is invoked only after n
\* successful calls and gets their n results in chunk order; once a call has
\* failed no further call is made (for a later chunk or the same one),
\* merge_results is not invoked and the caller gets the failure.
C22_SequentialCallsStopAtFailure ==
    num_chunks > 1 =>
        /\ Len(calls) <= num_chunks
        /\ \A k \in DOMAIN calls : calls[k] = k
        /\ Len(answers) = Len(calls) - (IF apc = "calling" THEN 1 ELSE 0)
        /\ \A k \in DOMAIN calls : \A j \in 1..(k - 1) : ~Failed(answers[j])
        /\ merge_invoked =>
              /\ Len(calls) = num_chunks
              /\ merge_args = [k \in 1..num_chunks |-> answers[k].body]
              /\ \A k \in 1..num_chunks : ~Failed(answers[k])
        /\ apc = "done" =>
              IF \E k \in DOMAIN answers : Failed(answers[k])
              THEN /\ ~merge_invoked
                   /\ returned = Outcome(TRUE, EmptyResult)
              ELSE /\ merge_invoked
                   /\ ~returned.raised
                   /\ returned.value \in merge_results(merge_args)

\* the call on the second of three chunks failed after the first succeeded
C22_Witness ==
    /\ num_chunks = 3
    /\ apc = "done"
    /\ calls = <<1, 2>>
    /\ ~Failed(answers[1])
    /\ Failed(answers[2])
    /\ returned.raised
    /\ ~merge_invoked

----------------------------------------------------------------------------
(* Requests on one stored document handled by threads of the server        *)
(* (app.run at the end of app.py serves every request in a thread of its   *)
(* own).  A handler's reads and writes of documents are separate steps:    *)
(* the lookup of line 126, the read of line 131, the LLM call and the pop  *)
(* of line 167 (206, 210, 229 and 272 in financial_extract).               *)

ThreadsInit ==
    /\ ChunkIdle
    /\ MergeIdle
    /\ SanitizeIdle
    /\ FinanceIdle
    /\ PeriodsIdle
    /\ AnalyzeIdle
    /\ \E t \in DocTexts : documents = Put(<<>>, 1, Doc(t, STR_call_txt))
    /\ next_id = 2
    /\ response = NoResponse
    /\ successes = [i \in 1..MaxDocs |-> 0]
    /\ llm_calls = 0
    /\ thr_pc = [t \in 1..MaxThreads |-> "idle"]
    /\ thr_endpoint = [t \in 1..MaxThreads |-> ""]
    /\ thr_doc = [t \in 1..MaxThreads |-> Doc(<<>>, <<>>)]
    /\ thr_response = [t \in 1..MaxThreads |-> NoResponse]

\* a request with document_id 1 arrives and thread t is at line 126 or 206
ReceiveRequest(t, endpoint) ==
    /\ thr_pc[t] = "idle"
    /\ thr_endpoint' = [thr_endpoint EXCEPT ![t] = endpoint]
    /\ thr_pc' = [thr_pc EXCEPT ![t] = "check"]
    /\ UNCHANGED <<thr_doc, thr_response, chunkVars, mergeVars, sanitizeVars, financeVars,
                   periodVars, storeVars, analyzeVars>>

\* lines 126-127 and 206-207
CheckDocument(t) ==
    /\ thr_pc[t] = "check"
    /\ IF 1 \notin DOMAIN documents
       THEN /\ thr_response' = [thr_response EXCEPT ![t] =
                   Response(thr_endpoint[t], 1, 404, {"error"}, "Document not found",
                            EmptyResult)]
            /\ thr_pc' = [thr_pc EXCEPT ![t] = "done"]
       ELSE /\ thr_pc' = [thr_pc EXCEPT ![t] = "load"]
            /\ UNCHANGED thr_response
    /\ UNCHANGED <<thr_endpoint, thr_doc, chunkVars, mergeVars, sanitizeVars, financeVars,
                   periodVars, storeVars, analyzeVars>>

\* lines 131 and 210
LoadDocument(t) ==
    /\ thr_pc[t] = "load"
    /\ IF 1 \in DOMAIN documents
       THEN /\ thr_doc' = [thr_doc EXCEPT ![t] = documents[1]]
            /\ thr_pc' = [thr_pc EXCEPT ![t] = "work"]
            /\ UNCHANGED thr_response
       ELSE /\ thr_response' = [thr_response EXCEPT ![t] =
                   key_error_response(thr_endpoint[t], 1)]
            /\ thr_pc' = [thr_pc EXCEPT ![t] = "done"]
            /\ UNCHANGED thr_doc
    /\ UNCHANGED <<thr_endpoint, chunkVars, mergeVars, sanitizeVars, financeVars,
                   periodVars, storeVars, analyzeVars>>

\* lines 132-164 and 211-269 on the thread's own doc: a response that is
\* not the completed result is returned, the completed result waits for
\* the pop
Work(t) ==
    /\ thr_pc[t] = "work"
    /\ \E resp \in
          IF thr_endpoint[t] = "/analyze"
          THEN {analyze_response(1, analyze_chunk(llm)) : llm \in LLMResponses}
          ELSE {financial_response(1, thr_doc[t], llm) : llm \in {"api_error", "malformed", "ok"}} :
          /\ thr_response' = [thr_response EXCEPT ![t] = resp]
          /\ thr_pc' = [thr_pc EXCEPT ![t] = IF resp.code = 200 THEN "pop" ELSE "done"]
    /\ UNCHANGED <<thr_endpoint, thr_doc, chunkVars, mergeVars, sanitizeVars, financeVars,
                   periodVars, storeVars, analyzeVars>>

\* lines 167-174 and 272-280
PopAndRespond(t) ==
    /\ thr_pc[t] = "pop"
    /\ documents' = Pop(documents, 1)
    /\ successes' = [successes EXCEPT ![1] = @ + 1]
    /\ thr_pc' = [thr_pc EXCEPT ![t] = "done"]
    /\ UNCHANGED <<next_id, response, llm_calls, thr_endpoint, thr_doc, thr_response,
                   chunkVars, mergeVars, sanitizeVars, financeVars, periodVars, analyzeVars>>

ThreadsNext ==
    \E t \in 1..MaxThreads :
        \/ \E endpoint \in {"/analyze", "/financial-extract"} : ReceiveRequest(t, endpoint)
        \/ CheckDocument(t)
        \/ LoadDocument(t)
        \/ Work(t)
        \/ PopAndRespond(t)

SpecThreads == ThreadsInit /\ [][ThreadsNext]_vars

Completed(t) == thr_pc[t] = "done" /\ thr_response[t].code = 200

\* C23: of the requests for one document_id that threads of the server
\* handle at the same time, at most one returns a completed result; every
\* other one is answered 'Document not found' or with another error.
C23_AtMostOneCompletes ==
    /\ Cardinality({t \in 1..MaxThreads : Completed(t)}) <= 1
    /\ successes[1] <= 1

PassesValidation(result) ==
    validate_analysis_output(result).ok /\ ~validate_analysis_output(result).raised

\* C24: when every chunk result passes validate_analysis_output, so does
\* the result merge_results returns for them, for one chunk result as for
\* several; and merge_results leaves the chunk results it was given as
\* they were.
C24_MergePreservesValidity ==
    /\ [](mpc = "done" /\ (\A i \in DOMAIN chunk_results : PassesValidation(chunk_results[i]))
            => PassesValidation(merged))
    /\ [][chunk_results' = chunk_results]_vars

\* three valid chunk results were merged into a valid result that is none
\* of them and joins guidance values that differ
C24_Witness ==
    /\ mpc = "done"
    /\ Len(chunk_results) = 3
    /\ \A i \in DOMAIN chunk_results : PassesValidation(chunk_results[i])
    /\ \A i \in DOMAIN chunk_results : merged # chunk_results[i]
    /\ \E i, j \in DOMAIN chunk_results :
          /\ chunk_results[i].forward_guidance.d.revenue.s = STR_8pct
          /\ chunk_results[j].forward_guidance.d.revenue.s = STR_5pct
    /\ merged.forward_guidance.d.revenue.s \notin {STR_8pct, STR_5pct, STR_NotMentioned}
    /\ PassesValidation(merged)

\* the sentences of t as text.split('. ') gives them, each trimmed and
\* followed by a period
TrimmedSentences(t) ==
    LET parts == Split(t, PeriodSpace)
    IN [i \in 1..Len(parts) |-> Strip(parts[i]) \o <<".">>]

\* the chunks that contain the sentence
ChunksWith(sentence, chunkList) ==
    {c \in DOMAIN chunkList : IsSubstring(sentence, chunkList[c])}

Least(S) == CHOOSE x \in S : \A y \in S : x <= y

\* the first chunk in which the sentence occurs, 0 when there is none
FirstChunkOf(sentence, chunkList) ==
    IF ChunksWith(sentence, chunkList) = {} THEN 0
    ELSE Least(ChunksWith(sentence, chunkList))

\* sentences k, k+1, ... can be given chunks that contain them, none before
\* chunk from and none before the chunk of the sentence before it
RECURSIVE PlacedInOrder(_, _, _, _)
PlacedInOrder(sentences, k, from, chunkList) ==
    IF k > Len(sentences) THEN TRUE
    ELSE LET later == {c \in ChunksWith(sentences[k], chunkList) : c >= from}
         IN later # {} /\ PlacedInOrder(sentences, k + 1, Least(later), chunkList)

\* C25 (as stated): when chunk_text splits a text longer than
\* max_tokens * 4 characters, every sentence of the text (trimmed, with a
\* period) occurs in some chunk, the first chunks in which the sentences
\* occur are non-decreasing along the text, and no chunk is empty.
C25_FirstOccurrencesInOrder ==
    cpc = "done" /\ Len(text) > max_tokens * 4 =>
        LET sentences == TrimmedSentences(text) IN
        /\ \A k \in DOMAIN sentences : FirstChunkOf(sentences[k], chunks) # 0
        /\ \A j, k \in DOMAIN sentences :
              j < k => FirstChunkOf(sentences[j], chunks) <= FirstChunkOf(sentences[k], chunks)
        /\ \A c \in DOMAIN chunks : chunks[c] # <<>>

\* C25 (amended): when chunk_text splits a text longer than max_tokens * 4
\* characters, every sentence of the text (trimmed, with a period) occurs
\* in some chunk, the sentences can be given chunks that contain them in
\* non-decreasing order along the text, there is at least one chunk and no
\* chunk is empty.  (A sentence that repeats an earlier one, or is part of
\* one, also occurs in an earlier chunk, so first occurrences may step back.)
C25_SentencesKeptInOrder ==
    cpc = "done" /\ Len(text) > max_tokens * 4 =>
        LET sentences == TrimmedSentences(text) IN
        /\ \A k \in DOMAIN sentences : FirstChunkOf(sentences[k], chunks) # 0
        /\ PlacedInOrder(sentences, 1, 1, chunks)
        /\ chunks # <<>>
        /\ \A c \in DOMAIN chunks : chunks[c] # <<>>

\* a text of three sentences was split into three chunks and its last
\* sentence, which repeats the first, occurs in the first chunk already
C25_Witness ==
    /\ cpc = "done"
    /\ Len(text) > max_tokens * 4
    /\ Len(chunks) = 3
    /\ Len(TrimmedSentences(text)) = 3
    /\ TrimmedSentences(text)[3] = TrimmedSentences(text)[1]
    /\ FirstChunkOf(TrimmedSentences(text)[2], chunks) = 2
    /\ FirstChunkOf(TrimmedSentences(text)[3], chunks) = 1

====
